---- MODULE Spec2Model ----
(***************************************************************************)
(* DM Lab (gsfit1996/dm-lab): the KPI aggregation and funnel analytics     *)
(* engine of src/src/Dashboard.jsx, and the Dashboard component's state    *)
(* handlers, as a state machine.                                           *)
(*                                                                         *)
(* JavaScript values are tagged tuples: <<"undef">>, <<"null">>,           *)
(* <<"bool", b>>, <<"int", n>>, <<"frac", n>> (the number n + 1/2),        *)
(* <<"nan">>, <<"inf">>, <<"ninf">>, <<"str", atoms>>, <<"date", k>>,       *)
(* <<"arr", seq>> and <<"obj", record>>.  A string is a sequence of atoms; *)
(* the atom " " is a whitespace character and every other atom is a run of *)
(* non-whitespace characters.  <<"date", k>> is the string that spells the *)
(* ISO calendar date of day k.  A computed ratio n/d is <<"ratio", n, d>>  *)
(* with d > 0.                                                             *)
(***************************************************************************)
EXTENDS Integers, Sequences, FiniteSets, TLC

VARIABLES
    state,          \* useState(initial.state): the AppState object
    logDraft,       \* useState(makeLogDraft(...)): the log form
    editingLogId,   \* useState(null): id of the log being edited
    dirty,          \* useState(false)
    idCounter,      \* number of runs that drew ids from makeId()
    savedAt,        \* useState(initial.savedAt)
    remote,         \* the Supabase load: "none", "pending" or "done"
    storage,        \* localStorage: the items under the storage keys
    autosaveTimer,  \* useRef(null) and the timeouts it has scheduled
    loading,        \* DMLabProvider: useState(true)
    pc,             \* position of the function under evaluation
    input,          \* arguments of the function under evaluation
    output          \* its results so far

appVars == <<state, logDraft, editingLogId, dirty, idCounter, savedAt, remote, storage,
             autosaveTimer, loading>>
fnVars == <<pc, input, output>>
vars == <<state, logDraft, editingLogId, dirty, idCounter, savedAt, remote, storage,
          autosaveTimer, loading, pc, input, output>>

(***************************************************************************)
(* JavaScript values                                                       *)
(***************************************************************************)
Undef == <<"undef">>
Null == <<"null">>
NaN == <<"nan">>
Inf == <<"inf">>
NegInf == <<"ninf">>
N(n) == <<"int", n>>
Fr(n) == <<"frac", n>>
B(b) == <<"bool", b>>
Str(atoms) == <<"str", atoms>>
S(atom) == <<"str", <<atom>>>>
EmptyStr == <<"str", <<>>>>
D(k) == <<"date", k>>
Arr(seq) == <<"arr", seq>>
Obj(rec) == <<"obj", rec>>

\* {} : an object without properties
EmptyObj == Obj(<<>>)

Tag(v) == v[1]
IsNullish(v) == Tag(v) \in {"undef", "null"}
IsNumber(v) == Tag(v) \in {"int", "frac", "nan", "inf", "ninf"}
IsFinite(v) == Tag(v) \in {"int", "frac"}

\* ToBoolean: undefined, null, false, 0, NaN and "" are falsy.
Truthy(v) ==
    CASE Tag(v) \in {"undef", "null", "nan"} -> FALSE
      [] Tag(v) = "bool" -> v[2]
      [] Tag(v) = "int" -> v[2] # 0
      [] Tag(v) = "str" -> v[2] # <<>>
      [] OTHER -> TRUE

\* a || b
Or(a, b) == IF Truthy(a) THEN a ELSE b
\* a ?? b
Coalesce(a, b) == IF IsNullish(a) THEN b ELSE a

\* o?.f : undefined unless o is an object that has the property.
Get(o, f) ==
    IF Tag(o) = "obj" /\ f \in DOMAIN o[2] THEN o[2][f] ELSE Undef

\* { ...o, f: v }
Put(o, f, v) ==
    Obj([x \in (DOMAIN o[2]) \cup {f} |-> IF x = f THEN v ELSE o[2][x]])

\* { ...o, ...fields }
PutAll(o, fields) ==
    Obj([x \in (DOMAIN o[2]) \cup (DOMAIN fields) |->
            IF x \in DOMAIN fields THEN fields[x] ELSE o[2][x]])

\* Array.isArray(v)
IsArray(v) == Tag(v) = "arr"
Elems(v) == v[2]

RECURSIVE TrimStart(_)
TrimStart(atoms) ==
    IF atoms # <<>> /\ Head(atoms) = " " THEN TrimStart(Tail(atoms)) ELSE atoms

RECURSIVE TrimEnd(_)
TrimEnd(atoms) ==
    IF atoms # <<>> /\ atoms[Len(atoms)] = " "
    THEN TrimEnd(SubSeq(atoms, 1, Len(atoms) - 1))
    ELSE atoms

\* String.prototype.trim on the atoms of a string
TrimAtoms(atoms) == TrimEnd(TrimStart(atoms))

\* The numeric atoms of the model and the numbers they spell.
NumAtoms == {"7", "-7", "7.5"}
AtomNumber(a) ==
    CASE a = "7" -> N(7)
      [] a = "-7" -> N(-7)
      [] a = "7.5" -> Fr(7)
      [] OTHER -> NaN

\* Number(v): StringToNumber trims, reads "" as 0 and a numeral as its value.
ToNumber(v) ==
    CASE IsNumber(v) -> v
      [] Tag(v) = "undef" -> NaN
      [] Tag(v) = "null" -> N(0)
      [] Tag(v) = "bool" -> IF v[2] THEN N(1) ELSE N(0)
      [] Tag(v) = "str" ->
            LET t == TrimAtoms(v[2])
            IN  IF t = <<>> THEN N(0)
                ELSE IF Len(t) = 1 THEN AtomNumber(t[1])
                ELSE NaN
      [] Tag(v) = "arr" -> IF v[2] = <<>> THEN N(0) ELSE NaN
      [] OTHER -> NaN

\* Math.floor of a finite number
Floor(v) == v[2]

Max(a, b) == IF a >= b THEN a ELSE b

(***************************************************************************)
(* Numeric helpers of Dashboard.jsx                                        *)
(***************************************************************************)
\* clampNonNegInt without Math.floor
clampNonNegInt_noFloor(value) ==
    LET n == ToNumber(value)
    IN  IF ~IsFinite(n) THEN N(0)
        ELSE IF n[2] >= 0 THEN n ELSE N(0)

clampNonNegInt(value) ==
    LET n == ToNumber(value)
    IN  IF ~IsFinite(n) THEN N(0) ELSE N(Max(0, Floor(n)))

clampNonNegNumber(value) ==
    LET n == ToNumber(value)
    IN  IF ~IsFinite(n) THEN N(0)
        ELSE IF Tag(n) = "int" THEN N(Max(0, n[2]))
        ELSE IF n[2] >= 0 THEN n ELSE N(0)

\* Exact rationals stand for the quotients the code computes.
Ratio(n, d) == <<"ratio", n, d>>
RatGE(a, b) == a[2] * b[3] >= b[2] * a[3]
RatGT(a, b) == a[2] * b[3] > b[2] * a[3]

\* safeDivide returning 0 for "no data", as kpiCalculator.ts's safeDiv does.
safeDivide_zeroForNoData(n, d) ==
    IF d <= 0 THEN Ratio(0, 1) ELSE Ratio(n, d)

\* A Totals field holds a non-negative integer, so Number(n) || 0 is n.
safeDivide(n, d) ==
    IF d <= 0 THEN Null ELSE Ratio(n, d)

(***************************************************************************)
(* Constants of Dashboard.jsx                                              *)
(***************************************************************************)
DEFAULT_TARGETS ==
    Obj([CR |-> N(30), PRR |-> N(8), ABR |-> N(4), BOOKED_KPI |-> N(3),
         POSITIVE_TO_ABR |-> N(50), ABR_TO_BOOKED |-> N(66),
         SEEN_RATE |-> N(0), SHOW_UP_RATE |-> N(0),
         SALES_CLOSE_RATE |-> N(0)])

\* `account_${index + 1}`
AccountIdFor(index) == Str(<<"account_", ToString(index + 1)>>)

(***************************************************************************)
(* Aggregator                                                              *)
(***************************************************************************)
CountFields ==
    {"connection_requests_sent", "connections_accepted",
     "permission_messages_sent", "permission_seen", "permission_positives",
     "offer_messages_sent", "offer_seen", "offer_or_booking_intent_positives",
     "booked_calls", "attended_calls", "closed_deals"}

ZeroTotals == [f \in CountFields |-> 0]

RECURSIVE AggregateLoop(_, _)
AggregateLoop(totals, logs) ==
    IF logs = <<>> THEN totals
    ELSE AggregateLoop(
            [f \in CountFields |->
                totals[f] + clampNonNegInt(Get(Head(logs), f))[2]],
            Tail(logs))

\* computeAggregates whose loop skips the first log.
computeAggregates_skipFirst(logs) ==
    AggregateLoop(ZeroTotals,
                  IF IsArray(logs) /\ Elems(logs) # <<>>
                  THEN Tail(Elems(logs)) ELSE <<>>)

\* computeAggregates(logs): logs is an array value, or nullish (logs || []).
computeAggregates(logs) ==
    AggregateLoop(ZeroTotals, IF IsArray(logs) THEN Elems(logs) ELSE <<>>)

(***************************************************************************)
(* KPI calculator                                                          *)
(***************************************************************************)
Metrics ==
    {"CR", "PRR", "ABR", "BOOKED_KPI", "POSITIVE_TO_ABR", "ABR_TO_BOOKED",
     "SEEN_RATE", "SHOW_UP_RATE", "SCR"}
PrimaryMetrics == {"CR", "PRR", "ABR", "BOOKED_KPI"}
TargetKeys ==
    {"CR", "PRR", "ABR", "BOOKED_KPI", "POSITIVE_TO_ABR", "ABR_TO_BOOKED",
     "SEEN_RATE", "SHOW_UP_RATE", "SALES_CLOSE_RATE"}

\* The key of config.kpiTargets that holds a metric's target.
TargetKeyOf(m) == IF m = "SCR" THEN "SALES_CLOSE_RATE" ELSE m

\* (targets?.K || 0) / 100, for a target that is a finite number.
TargetRatio(targets, key) ==
    LET t == Or(Get(targets, key), N(0))
    IN  IF Tag(t) = "frac" THEN Ratio(2 * t[2] + 1, 200) ELSE Ratio(t[2], 100)

\* IEEE-754 doubles: the targets T (as 2*T, for T up to 120 in steps of 0.5)
\* for which the product (T / 100) * 0.9 rounds above the double nearest to
\* 0.9 * T / 100.  A ratio equal to 0.9 * T / 100 is below that product.
NineTenthsRoundsUp ==
    {1, 2, 4, 5, 7, 8, 10, 14, 16, 17, 20, 23, 27, 28, 32, 33, 34, 39,
     40, 46, 53, 54, 55, 56, 63, 64, 65, 66, 67, 68, 77, 78, 79, 80,
     81, 91, 92, 93, 105, 106, 107, 108, 109, 110, 111, 112, 126, 128,
     130, 132, 134, 136, 154, 156, 158, 160, 162, 182, 184, 186, 210,
     212, 214, 216, 218, 220, 222, 224, 239}

\* value >= target * 0.9 as the doubles decide it: the quotients are
\* correctly rounded, so only equality with the exact product depends on
\* the rounding of the product.
AtLeastNineTenths(value, target) ==
    LET exact == Ratio(9 * target[2], 10 * target[3])
    IN  \/ RatGT(value, exact)
        \/ /\ RatGE(value, exact)
           /\ (200 * target[2]) \div target[3] \notin NineTenthsRoundsUp

\* statusFor with the 0.8 warn multiplier of kpiCalculator.ts's getStatus.
statusFor_warnAt80(value, target) ==
    IF value = Null \/ target = Null \/ target[2] <= 0 THEN "neutral"
    ELSE IF RatGE(value, target) THEN "good"
    ELSE IF RatGE(value, Ratio(8 * target[2], 10 * target[3])) THEN "warn"
    ELSE "bad"

statusFor(value, target) ==
    IF value = Null \/ target = Null \/ target[2] <= 0 THEN "neutral"
    ELSE IF RatGE(value, target) THEN "good"
    ELSE IF AtLeastNineTenths(value, target) THEN "warn"
    ELSE "bad"

\* computeBottleneck comparing with > instead of >=.
computeBottleneck_strict(kpis, targets) ==
    LET booked == IF kpis.BOOKED_KPI = Null THEN Ratio(0, 1) ELSE kpis.BOOKED_KPI
        abr == IF kpis.ABR = Null THEN Ratio(0, 1) ELSE kpis.ABR
        prr == IF kpis.PRR = Null THEN Ratio(0, 1) ELSE kpis.PRR
        cr == IF kpis.CR = Null THEN Ratio(0, 1) ELSE kpis.CR
    IN  IF RatGT(booked, targets.BOOKED_KPI) THEN "None (scale volume)"
        ELSE IF RatGT(abr, targets.ABR) THEN "Booking stage"
        ELSE IF RatGT(prr, targets.PRR) THEN "Offer stage"
        ELSE IF RatGT(cr, targets.CR) THEN "Permission stage"
        ELSE "Targeting/Profile resonance"

computeBottleneck(kpis, targets) ==
    LET booked == IF kpis.BOOKED_KPI = Null THEN Ratio(0, 1) ELSE kpis.BOOKED_KPI
        abr == IF kpis.ABR = Null THEN Ratio(0, 1) ELSE kpis.ABR
        prr == IF kpis.PRR = Null THEN Ratio(0, 1) ELSE kpis.PRR
        cr == IF kpis.CR = Null THEN Ratio(0, 1) ELSE kpis.CR
    IN  IF RatGE(booked, targets.BOOKED_KPI) THEN "None (scale volume)"
        ELSE IF RatGE(abr, targets.ABR) THEN "Booking stage"
        ELSE IF RatGE(prr, targets.PRR) THEN "Offer stage"
        ELSE IF RatGE(cr, targets.CR) THEN "Permission stage"
        ELSE "Targeting/Profile resonance"

computeKpis(totals, targets) ==
    LET target == [k \in TargetKeys |-> TargetRatio(targets, k)]
        CR == safeDivide(totals.connections_accepted,
                         totals.connection_requests_sent)
        PRR == safeDivide(totals.permission_positives,
                          totals.permission_messages_sent)
        ABR == safeDivide(totals.offer_or_booking_intent_positives,
                          totals.permission_messages_sent)
        BOOKED_KPI == safeDivide(totals.booked_calls,
                                 totals.permission_messages_sent)
        POSITIVE_TO_ABR == safeDivide(totals.offer_or_booking_intent_positives,
                                      totals.permission_positives)
        ABR_TO_BOOKED == safeDivide(totals.booked_calls,
                                    totals.offer_or_booking_intent_positives)
        SEEN_RATE == safeDivide(totals.permission_seen,
                                totals.permission_messages_sent)
        SHOW_UP_RATE == safeDivide(totals.attended_calls, totals.booked_calls)
        SCR == safeDivide(totals.closed_deals, totals.attended_calls)
        primary == [CR |-> CR, PRR |-> PRR, ABR |-> ABR,
                    BOOKED_KPI |-> BOOKED_KPI]
    IN  [primary |-> primary,
         secondary |-> [POSITIVE_TO_ABR |-> POSITIVE_TO_ABR,
                        ABR_TO_BOOKED |-> ABR_TO_BOOKED],
         diagnostics |-> [SEEN_RATE |-> SEEN_RATE,
                          SHOW_UP_RATE |-> SHOW_UP_RATE, SCR |-> SCR],
         targets |-> target,
         status |-> [CR |-> statusFor(CR, target.CR),
                     PRR |-> statusFor(PRR, target.PRR),
                     ABR |-> statusFor(ABR, target.ABR),
                     BOOKED_KPI |-> statusFor(BOOKED_KPI, target.BOOKED_KPI),
                     POSITIVE_TO_ABR |->
                         statusFor(POSITIVE_TO_ABR, target.POSITIVE_TO_ABR),
                     ABR_TO_BOOKED |->
                         statusFor(ABR_TO_BOOKED, target.ABR_TO_BOOKED),
                     SEEN_RATE |-> statusFor(SEEN_RATE, target.SEEN_RATE),
                     SHOW_UP_RATE |->
                         statusFor(SHOW_UP_RATE, target.SHOW_UP_RATE),
                     SCR |-> statusFor(SCR, target.SALES_CLOSE_RATE)],
         bottleneck |-> computeBottleneck(primary, target)]

(***************************************************************************)
(* Filter engine                                                           *)
(***************************************************************************)
\* The outcome of a call that ends in a TypeError.
Throw == <<"throw">>

\* parseISODate(value): null for a falsy value or a string that does not
\* split into three numbers (none of the model's atoms does), the day for a
\* date string, and a TypeError for a truthy value that has no split method.
parseISODate(value) ==
    IF ~Truthy(value) THEN Null
    ELSE IF Tag(value) = "date" THEN N(value[2])
    ELSE IF Tag(value) = "str" THEN Null
    ELSE Throw

\* The filter callback with excludeOldLeads tested before onlyOldLeads.
LogVerdict_excludeFirst(log, filters, startDate, endDate) ==
    LET accountId == Get(filters, "accountId")
        campaignTag == Get(filters, "campaignTag")
        old == Truthy(Get(log, "is_old_leads_lane"))
        logDate == parseISODate(Get(log, "date"))
    IN  IF /\ Truthy(accountId) /\ accountId # S("all")
           /\ Get(log, "account_id") # accountId
        THEN "drop"
        ELSE IF /\ Truthy(campaignTag) /\ campaignTag # S("all")
                /\ Or(Get(log, "campaign_tag"), EmptyStr) # campaignTag
        THEN "drop"
        ELSE IF Truthy(Get(filters, "excludeOldLeads")) /\ old THEN "drop"
        ELSE IF /\ ~Truthy(Get(filters, "excludeOldLeads"))
                /\ Truthy(Get(filters, "onlyOldLeads")) /\ ~old
        THEN "drop"
        ELSE IF logDate = Throw THEN "throw"
        ELSE IF startDate # Null /\ logDate # Null /\ logDate[2] < startDate[2]
        THEN "drop"
        ELSE IF endDate # Null /\ logDate # Null /\ logDate[2] > endDate[2]
        THEN "drop"
        ELSE "keep"

\* The filter callback of filterLogs on one log: "keep", "drop" or "throw".
LogVerdict(log, filters, startDate, endDate) ==
    LET accountId == Get(filters, "accountId")
        campaignTag == Get(filters, "campaignTag")
        old == Truthy(Get(log, "is_old_leads_lane"))
        logDate == parseISODate(Get(log, "date"))
    IN  IF /\ Truthy(accountId) /\ accountId # S("all")
           /\ Get(log, "account_id") # accountId
        THEN "drop"
        ELSE IF /\ Truthy(campaignTag) /\ campaignTag # S("all")
                /\ Or(Get(log, "campaign_tag"), EmptyStr) # campaignTag
        THEN "drop"
        ELSE IF Truthy(Get(filters, "onlyOldLeads")) /\ ~old THEN "drop"
        ELSE IF /\ ~Truthy(Get(filters, "onlyOldLeads"))
                /\ Truthy(Get(filters, "excludeOldLeads")) /\ old
        THEN "drop"
        ELSE IF logDate = Throw THEN "throw"
        ELSE IF startDate # Null /\ logDate # Null /\ logDate[2] < startDate[2]
        THEN "drop"
        ELSE IF endDate # Null /\ logDate # Null /\ logDate[2] > endDate[2]
        THEN "drop"
        ELSE "keep"

\* filterLogs(logs, filters): the logs kept, in order, or Throw.
filterLogs(logs, filters) ==
    LET startDate == parseISODate(Get(filters, "start"))
        endDate == parseISODate(Get(filters, "end"))
        seq == IF IsArray(logs) THEN Elems(logs) ELSE <<>>
    IN  IF startDate = Throw \/ endDate = Throw THEN Throw
        ELSE IF \E i \in 1..Len(seq) :
                    LogVerdict(seq[i], filters, startDate, endDate) = "throw"
        THEN Throw
        ELSE Arr(SelectSeq(seq,
                 LAMBDA l : LogVerdict(l, filters, startDate, endDate) = "keep"))

(***************************************************************************)
(* Experiment evaluator                                                    *)
(***************************************************************************)
primaryMetricForStage(stage) ==
    CASE stage = S("CONNECTION") -> S("CR")
      [] stage = S("PERMISSION") -> S("PRR")
      [] stage = S("OFFER") -> S("ABR")
      [] stage = S("BOOKING") -> S("BOOKED_KPI")
      [] OTHER -> S("PRR")

\* requiredSeenForStage with the PERMISSION threshold for OFFER too
requiredSeenForStage_offerAsPermission(stage) ==
    IF stage = S("PERMISSION") \/ stage = S("OFFER") THEN N(60)
    ELSE N(0)

requiredSeenForStage(stage) ==
    IF stage = S("PERMISSION") THEN N(60)
    ELSE IF stage = S("OFFER") THEN N(30)
    ELSE N(0)

metricValueFor(kpis, metric) ==
    CASE metric = S("CR") -> kpis.primary.CR
      [] metric = S("PRR") -> kpis.primary.PRR
      [] metric = S("ABR") -> kpis.primary.ABR
      [] metric = S("BOOKED_KPI") -> kpis.primary.BOOKED_KPI
      [] OTHER -> Null

\* a || b on two numbers
getSeenCountForStage(stage, totals) ==
    IF stage = S("PERMISSION")
    THEN IF totals.permission_seen # 0 THEN totals.permission_seen
         ELSE totals.permission_messages_sent
    ELSE IF stage = S("OFFER")
    THEN IF totals.offer_seen # 0 THEN totals.offer_seen
         ELSE totals.offer_messages_sent
    ELSE 0

\* The logs of one variant that computeVariantStats aggregates, or Throw.
VariantLogs(experiment, variant, logs, filters, config) ==
    LET seq == IF IsArray(logs) THEN Elems(logs) ELSE <<>>
        variantLogs ==
            SelectSeq(seq,
                LAMBDA log : /\ Get(log, "experiment_id") = Get(experiment, "id")
                             /\ Get(log, "variant_id") = Get(variant, "id"))
    IN  filterLogs(Arr(variantLogs),
                   Put(filters, "excludeOldLeads",
                       Get(config, "excludeOldLeadsFromKpi")))

\* One element of computeVariantStats's result.
VariantStat(experiment, variant, filtered, config) ==
    LET stage == Get(experiment, "funnel_stage_targeted")
        primaryMetric ==
            Or(Get(experiment, "primary_metric"), primaryMetricForStage(stage))
        required ==
            clampNonNegInt(Coalesce(Get(experiment, "required_sample_size_seen"),
                                    requiredSeenForStage(stage)))[2]
        totals == computeAggregates(filtered)
        kpis == computeKpis(totals, Get(config, "kpiTargets"))
        seen == getSeenCountForStage(stage, totals)
    IN  Obj([variant |-> variant, totals |-> totals, kpis |-> kpis,
             metricValue |-> metricValueFor(kpis, primaryMetric),
             seen |-> seen, required |-> required,
             isValid |-> (required = 0 \/ seen >= required)])

\* computeVariantStats(experiment, logs, filters, config): an array of
\* variant statistics, or Throw.
computeVariantStats(experiment, logs, filters, config) ==
    LET variants == Elems(Get(experiment, "variants"))
        filtered == [i \in 1..Len(variants) |->
                        VariantLogs(experiment, variants[i], logs, filters, config)]
    IN  IF \E i \in 1..Len(variants) : filtered[i] = Throw
        THEN Throw
        ELSE Arr([i \in 1..Len(variants) |->
                    VariantStat(experiment, variants[i], filtered[i], config)])

\* A null metric value compared as 0 instead of -1.
MetricOrMinusOne_nullAsZero(stat) ==
    IF Get(stat, "metricValue") = Null THEN Ratio(0, 1)
    ELSE Get(stat, "metricValue")

\* current.metricValue ?? -1
MetricOrMinusOne(stat) ==
    IF Get(stat, "metricValue") = Null THEN Ratio(-1, 1)
    ELSE Get(stat, "metricValue")

\* validVariants.reduce((best, current) => ..., null)
RECURSIVE ReduceWinner(_, _)
ReduceWinner(best, rest) ==
    IF rest = <<>> THEN best
    ELSE LET current == Head(rest)
         IN  ReduceWinner(
                 IF best = Null THEN current
                 ELSE IF RatGT(MetricOrMinusOne(current), MetricOrMinusOne(best))
                 THEN current
                 ELSE best,
                 Tail(rest))

\* The winner taken among all the variants, as the experiments page's
\* ranking does, instead of among the valid ones.
ExperimentStat_noValidityGate(experiment, variantStats) ==
    Obj([experiment |-> experiment, variantStats |-> variantStats,
         primaryMetric |->
             Or(Get(experiment, "primary_metric"),
                primaryMetricForStage(Get(experiment, "funnel_stage_targeted"))),
         winner |-> ReduceWinner(Null, Elems(variantStats))])

\* One element of computeExperimentStats's result, from the variant stats.
ExperimentStat(experiment, variantStats) ==
    LET validVariants ==
            SelectSeq(Elems(variantStats), LAMBDA v : Get(v, "isValid"))
    IN  Obj([experiment |-> experiment, variantStats |-> variantStats,
             primaryMetric |->
                 Or(Get(experiment, "primary_metric"),
                    primaryMetricForStage(Get(experiment, "funnel_stage_targeted"))),
             winner |-> ReduceWinner(Null, validVariants)])

\* computeExperimentStats(experiments, logs, filters, config): an array with
\* one entry per experiment, or Throw.
computeExperimentStats(experiments, logs, filters, config) ==
    LET exps == IF IsArray(experiments) THEN Elems(experiments) ELSE <<>>
        variantStats == [i \in 1..Len(exps) |->
                            computeVariantStats(exps[i], logs, filters, config)]
    IN  IF \E i \in 1..Len(exps) : variantStats[i] = Throw
        THEN Throw
        ELSE Arr([i \in 1..Len(exps) |-> ExperimentStat(exps[i], variantStats[i])])

(***************************************************************************)
(* Experiment summaries of the dashboard page (pages/Dashboard.tsx), which *)
(* reads the camelCase records of the provider state                       *)
(***************************************************************************)
\* filteredLogs.main while the page's account, date and campaign filters
\* hold their initial value 'all'
filteredLogsMain(dailyLogs, settings) ==
    IF Truthy(Get(settings, "excludeOldLeadsFromKpi"))
    THEN SelectSeq(Elems(dailyLogs),
                   LAMBDA l : ~Truthy(Get(l, "isOldLeadsLane")))
    ELSE Elems(dailyLogs)

\* vLogs.reduce((sum, l) => sum + (l[f] || 0), 0)
RECURSIVE SumOrZero(_, _)
SumOrZero(logs, f) ==
    IF logs = <<>> THEN 0
    ELSE (IF Truthy(Get(Head(logs), f)) THEN Get(Head(logs), f)[2] ELSE 0)
         + SumOrZero(Tail(logs), f)

\* One element of `variants` in experimentSummaries.
VariantSummary(exp, variant, expLogs) ==
    LET vLogs == SelectSeq(expLogs,
                     LAMBDA l : Get(l, "variantId") = Get(variant, "id"))
        sent == SumOrZero(vLogs, "permissionMessagesSent")
        requests == SumOrZero(vLogs, "connectionRequestsSent")
        accepted == SumOrZero(vLogs, "connectionsAccepted")
        positives == SumOrZero(vLogs, "permissionPositives")
        offers == SumOrZero(vLogs, "offerOrBookingIntentPositives")
        booked == SumOrZero(vLogs, "bookedCalls")
        seen == SumOrZero(vLogs,
                    IF Get(exp, "funnelStageTargeted") = S("OFFER")
                    THEN "offerSeen" ELSE "permissionSeen")
        metric == Get(exp, "primaryMetric")
        denom == IF metric = S("CR") THEN requests ELSE sent
        rate == IF denom > 0
                THEN IF metric = S("CR") THEN Ratio(accepted, denom)
                     ELSE IF metric = S("PRR") THEN Ratio(positives, denom)
                     ELSE IF metric = S("ABR") THEN Ratio(offers, denom)
                     ELSE Ratio(booked, denom)
                ELSE Ratio(0, 1)
        required == Get(exp, "requiredSampleSizeSeen")[2]
    IN  Obj([variant |-> variant, seen |-> seen, rate |-> rate,
             isValid |-> IF required > 0 THEN seen >= required ELSE TRUE])

\* validVariants.reduce((prev, current) => prev.rate > current.rate ? prev : current, ...)
RECURSIVE ReduceSummaryWinner(_, _)
ReduceSummaryWinner(prev, rest) ==
    IF rest = <<>> THEN prev
    ELSE ReduceSummaryWinner(
             IF RatGT(Get(prev, "rate"), Get(Head(rest), "rate"))
             THEN prev ELSE Head(rest),
             Tail(rest))

\* One element of experimentSummaries.
ExperimentSummary(exp, mainLogs) ==
    LET expLogs == SelectSeq(mainLogs,
                       LAMBDA l : Get(l, "experimentId") = Get(exp, "id"))
        vs == Elems(Get(exp, "variants"))
        variants == [i \in 1..Len(vs) |-> VariantSummary(exp, vs[i], expLogs)]
        validVariants == SelectSeq(variants, LAMBDA v : Get(v, "isValid"))
    IN  Obj([exp |-> exp, variants |-> Arr(variants),
             winner |-> IF Len(validVariants) > 0
                        THEN ReduceSummaryWinner(validVariants[1], validVariants)
                        ELSE Null])

experimentSummaries(experiments, mainLogs) ==
    Arr([i \in 1..Len(Elems(experiments)) |->
            ExperimentSummary(Elems(experiments)[i], mainLogs)])

(***************************************************************************)
(* Normalizer                                                              *)
(*                                                                         *)
(* A normalize function returns Throw when the code raises a TypeError.    *)
(* env holds what the run draws from outside: env.ids numbers the run for  *)
(* makeId(), env.today is the day new Date() falls on.                     *)
(***************************************************************************)
\* String(v) for the truthy values v it is applied to
StringOf(v) ==
    CASE Tag(v) \in {"str", "date"} -> v
      [] Tag(v) = "int" -> S(ToString(v[2]))
      [] Tag(v) = "frac" -> S(ToString(v[2]) \o ".5")
      [] Tag(v) = "bool" -> S("true")
      [] Tag(v) = "inf" -> S("Infinity")
      [] Tag(v) = "ninf" -> S("-Infinity")
      [] Tag(v) = "arr" -> IF v[2] = <<>> THEN EmptyStr ELSE S("[array]")
      [] OTHER -> S("[object Object]")

\* v.trim(): only a string has the method.
Trim(v) ==
    IF Tag(v) = "str" THEN Str(TrimAtoms(v[2]))
    ELSE IF Tag(v) = "date" THEN v
    ELSE Throw

\* An object literal, one of whose property expressions may have thrown.
ObjOrThrow(rec) ==
    IF \E f \in DOMAIN rec : rec[f] = Throw THEN Throw ELSE Obj(rec)

\* array.map(...), one of whose callbacks may have thrown.
ArrOrThrow(seq) ==
    IF \E i \in 1..Len(seq) : seq[i] = Throw THEN Throw ELSE Arr(seq)

\* makeId(): an id no other call returns; slot tells the calls of a run apart.
makeId(env, slot) == Str(<<"id_", ToString(env.ids)>> \o slot)

\* toISODate(new Date())
Today(env) == D(env.today)

\* new Date().toISOString()
NowISO(env) == Str(<<"T", ToString(env.today)>>)

GoalFields ==
    {"connection_requests_sent", "permission_messages_sent", "booked_calls"}

DEFAULT_ACCOUNTS ==
    << Obj([id |-> AccountIdFor(0), name |-> Str(<<"Account", " ", "1">>),
            goals |-> Obj([f \in GoalFields |-> N(0)])]),
       Obj([id |-> AccountIdFor(1), name |-> Str(<<"Account", " ", "2">>),
            goals |-> Obj([f \in GoalFields |-> N(0)])]) >>

DEFAULT_STATE ==
    Obj([config |-> Obj([autosave |-> B(FALSE),
                         excludeOldLeadsFromKpi |-> B(TRUE),
                         kpiTargets |-> DEFAULT_TARGETS,
                         accounts |-> Arr(DEFAULT_ACCOUNTS)]),
         logs |-> Arr(<<>>), experiments |-> Arr(<<>>),
         prospects |-> Arr(<<>>), ui |-> Obj([isDark |-> B(TRUE)])])

\* One element of `accounts` in normalizeConfig; index counts from 0.
NormalizeAccount(account, index) ==
    ObjOrThrow(
        [id |-> StringOf(Or(Get(account, "id"), AccountIdFor(index))),
         name |-> Trim(Or(Get(account, "name"),
                          Str(<<"Account", " ", ToString(index + 1)>>))),
         goals |-> Obj([f \in GoalFields |->
                          clampNonNegInt(Get(Get(account, "goals"), f))])])

normalizeConfig(config) ==
    LET accountsRaw ==
            IF IsArray(Get(config, "accounts"))
               /\ Len(Elems(Get(config, "accounts"))) > 0
            THEN Elems(Get(config, "accounts"))
            ELSE DEFAULT_ACCOUNTS
        given == Get(config, "kpiTargets")
        \* { ...DEFAULT_TARGETS, ...(config?.kpiTargets || {}) }
        kpiTargets == [k \in DOMAIN DEFAULT_TARGETS[2] |->
                          IF Tag(given) = "obj" /\ k \in DOMAIN given[2]
                          THEN given[2][k] ELSE DEFAULT_TARGETS[2][k]]
    IN  ObjOrThrow(
            [autosave |-> B(Truthy(Get(config, "autosave"))),
             excludeOldLeadsFromKpi |->
                 B(Get(config, "excludeOldLeadsFromKpi") # B(FALSE)),
             kpiTargets |-> Obj([k \in DOMAIN kpiTargets |->
                                   clampNonNegNumber(kpiTargets[k])]),
             accounts |-> ArrOrThrow([i \in 1..Len(accountsRaw) |->
                                        NormalizeAccount(accountsRaw[i], i - 1)])])

\* a || b || c
Or3(a, b, c) == Or(Or(a, b), c)

normalizeLog(log, defaultAccountId, env, slot) ==
    ObjOrThrow(
        [id |-> Or(Get(log, "id"), makeId(env, slot)),
         date |-> Or(Get(log, "date"), Today(env)),
         account_id |-> Or3(Get(log, "account_id"), Get(log, "accountId"),
                            defaultAccountId),
         is_old_leads_lane |->
             B(Truthy(Or3(Get(log, "is_old_leads_lane"),
                          Get(log, "isOldLeadsLane"),
                          B(Get(log, "lane") = S("old"))))),
         campaign_tag |-> Trim(Or3(Get(log, "campaign_tag"), Get(log, "tag"),
                                   EmptyStr)),
         notes |-> Trim(Or(Get(log, "notes"), EmptyStr)),
         experiment_id |-> Or3(Get(log, "experiment_id"),
                               Get(log, "experimentId"), EmptyStr),
         variant_id |-> Or3(Get(log, "variant_id"), Get(log, "variantId"),
                            EmptyStr),
         connection_requests_sent |->
             clampNonNegInt(Get(log, "connection_requests_sent")),
         connections_accepted |->
             clampNonNegInt(Or(Get(log, "connections_accepted"),
                               Get(log, "accepted"))),
         permission_messages_sent |->
             clampNonNegInt(Or3(Get(log, "permission_messages_sent"),
                                Get(log, "sent"), Get(log, "initiated"))),
         permission_seen |->
             clampNonNegInt(Or3(Get(log, "permission_seen"), Get(log, "seen"),
                                Get(log, "mediaSeen"))),
         permission_positives |->
             clampNonNegInt(Or3(Get(log, "permission_positives"),
                                Get(log, "positive"), Get(log, "engaged"))),
         offer_messages_sent |-> clampNonNegInt(Get(log, "offer_messages_sent")),
         offer_seen |-> clampNonNegInt(Get(log, "offer_seen")),
         offer_or_booking_intent_positives |->
             clampNonNegInt(Or3(Get(log, "offer_or_booking_intent_positives"),
                                Get(log, "calendly"), N(0))),
         booked_calls |->
             clampNonNegInt(Or(Get(log, "booked_calls"), Get(log, "booked"))),
         attended_calls |-> clampNonNegInt(Get(log, "attended_calls")),
         closed_deals |-> clampNonNegInt(Get(log, "closed_deals"))])

\* One element of `variants` in normalizeExperiment; index counts from 0.
NormalizeVariant(variant, index, env, slot) ==
    ObjOrThrow(
        [id |-> Or(Get(variant, "id"),
                   makeId(env, slot \o <<"_variant_", ToString(index)>>)),
         name |-> Trim(Or(Get(variant, "name"),
                          Str(<<"Variant", " ", ToString(index + 1)>>))),
         message |-> Or3(Get(variant, "message"), Get(variant, "messageText"),
                         EmptyStr),
         step_type |-> Or3(Get(variant, "step_type"), Get(variant, "stepType"),
                           EmptyStr)])

normalizeExperiment(experiment, env, slot) ==
    LET stage == Or3(Get(experiment, "funnel_stage_targeted"),
                     Get(experiment, "stage"), S("PERMISSION"))
        primaryMetric == Or(Get(experiment, "primary_metric"),
                            primaryMetricForStage(stage))
        required == Get(experiment, "required_sample_size_seen")
        requiredSeen == IF IsFinite(ToNumber(required))
                        THEN clampNonNegInt(required)
                        ELSE requiredSeenForStage(stage)
        given == Get(experiment, "variants")
        variants ==
            IF IsArray(given) /\ Len(Elems(given)) > 0
            THEN ArrOrThrow([i \in 1..Len(Elems(given)) |->
                               NormalizeVariant(Elems(given)[i], i - 1, env, slot)])
            ELSE IF Truthy(Or(Get(experiment, "messageText"),
                              Get(experiment, "messageLabel")))
            THEN ArrOrThrow(
                     <<ObjOrThrow(
                         [id |-> makeId(env, slot \o <<"_variant">>),
                          name |-> Trim(Or(Get(experiment, "messageLabel"),
                                           Str(<<"Variant", " ", "A">>))),
                          message |-> Or(Get(experiment, "messageText"), EmptyStr),
                          step_type |-> EmptyStr])>>)
            ELSE Arr(<<Obj([id |-> makeId(env, slot \o <<"_variant">>),
                            name |-> Str(<<"Variant", " ", "A">>),
                            message |-> EmptyStr, step_type |-> EmptyStr])>>)
    IN  ObjOrThrow(
            [id |-> Or(Get(experiment, "id"), makeId(env, slot)),
             name |-> Trim(Or(Get(experiment, "name"),
                              Str(<<"Untitled", " ", "Experiment">>))),
             status |-> Or(Get(experiment, "status"), S("active")),
             hypothesis |-> Trim(Or(Get(experiment, "hypothesis"), EmptyStr)),
             notes |-> Trim(Or(Get(experiment, "notes"), EmptyStr)),
             createdAt |-> Or(Get(experiment, "createdAt"), NowISO(env)),
             funnel_stage_targeted |-> stage,
             primary_metric |-> primaryMetric,
             required_sample_size_seen |-> requiredSeen,
             variants |-> variants])

FUNNEL_STAGES ==
    << "REQUESTED", "CONNECTED", "PERMISSION_SENT", "PERMISSION_POSITIVE",
       "OFFER_POSITIVE", "BOOKED", "ATTENDED", "CLOSED", "LOST" >>

normalizeProspect(prospect, defaultAccountId, env, slot) ==
    LET stage == IF \E i \in 1..Len(FUNNEL_STAGES) :
                        Get(prospect, "stage") = S(FUNNEL_STAGES[i])
                 THEN Get(prospect, "stage")
                 ELSE S(FUNNEL_STAGES[1])
    IN  ObjOrThrow(
            [id |-> Or(Get(prospect, "id"), makeId(env, slot)),
             name |-> Trim(Or(Get(prospect, "name"), S("Untitled"))),
             linkedin_url |-> Trim(Or3(Get(prospect, "linkedin_url"),
                                       Get(prospect, "linkedinUrl"), EmptyStr)),
             notes |-> Trim(Or(Get(prospect, "notes"), EmptyStr)),
             account_id |-> Or3(Get(prospect, "account_id"),
                                Get(prospect, "accountId"), defaultAccountId),
             is_old_leads_lane |->
                 B(Truthy(Or(Get(prospect, "is_old_leads_lane"),
                             B(Get(prospect, "lane") = S("old"))))),
             stage |-> stage])

\* array.map(normalizer) on a collection of the raw state, [] for a non-array
NormalizeEach(collection, Normalizer(_, _)) ==
    IF IsArray(collection)
    THEN ArrOrThrow([i \in 1..Len(Elems(collection)) |->
                       Normalizer(Elems(collection)[i], i)])
    ELSE Arr(<<>>)

normalizeState(raw, env) ==
    LET config == normalizeConfig(Get(raw, "config"))
    IN  IF config = Throw THEN Throw
        ELSE LET first == Elems(Get(config, "accounts"))[1]
                 defaultAccountId == Or(Get(first, "id"), AccountIdFor(0))
                 NLog(log, i) ==
                     normalizeLog(log, defaultAccountId, env,
                                  <<"_log_", ToString(i)>>)
                 NExperiment(experiment, i) ==
                     normalizeExperiment(experiment, env,
                                         <<"_experiment_", ToString(i)>>)
                 NProspect(prospect, i) ==
                     normalizeProspect(prospect, defaultAccountId, env,
                                       <<"_prospect_", ToString(i)>>)
             IN  ObjOrThrow(
                     [config |-> config,
                      logs |-> NormalizeEach(Get(raw, "logs"), NLog),
                      experiments |->
                          NormalizeEach(Get(raw, "experiments"), NExperiment),
                      prospects |-> NormalizeEach(Get(raw, "prospects"), NProspect),
                      ui |-> Obj([isDark |->
                                B(Get(Get(raw, "ui"), "isDark") # B(FALSE))])])

(***************************************************************************)
(* Persistence                                                             *)
(*                                                                         *)
(* localStorage is a record of items: `current` is the item under          *)
(* STORAGE_KEY and `legacy` the items under LEGACY_STORAGE_KEYS.  An item  *)
(* is Absent or the value JSON.parse gives for its text, null for a text   *)
(* that is not JSON.                                                       *)
(***************************************************************************)
SCHEMA_VERSION == 5
Absent == <<"absent">>

\* { ...v } : the own properties of an object, none for another value
Spread(v) == IF Tag(v) = "obj" THEN v ELSE EmptyObj

\* Number(v) > 0
IsPositive(v) ==
    LET n == ToNumber(v)
    IN  CASE Tag(n) = "int" -> n[2] > 0
          [] Tag(n) = "frac" -> n[2] >= 0
          [] Tag(n) = "inf" -> TRUE
          [] OTHER -> FALSE

\* a ?? b ?? c
Coalesce3(a, b, c) == Coalesce(Coalesce(a, b), c)

\* The log migrateLegacyState hands to normalizeLog.
LegacyLog(log) ==
    PutAll(Spread(log),
        [connection_requests_sent |->
             Or(Get(log, "connection_requests_sent"), N(0)),
         offer_or_booking_intent_positives |->
             IF IsPositive(Or(Get(log, "calendly"), N(0)))
             THEN Get(log, "calendly")
             ELSE Or(Get(log, "offer_or_booking_intent_positives"), N(0))])

\* migrateLegacyState once base = normalizeState(DEFAULT_STATE) is known
MigrateOnto(base, legacy, env) ==
    LET baseConfig == Get(base, "config")
        given == Get(legacy, "config")
        config ==
            normalizeConfig(PutAll(baseConfig,
                [autosave |-> Coalesce(Get(given, "autosave"),
                                       Get(legacy, "autosave")),
                 excludeOldLeadsFromKpi |->
                     Coalesce3(Get(given, "excludeOldLeadsFromKpi"),
                               Get(legacy, "excludeOldLeadsFromKpi"),
                               Get(baseConfig, "excludeOldLeadsFromKpi")),
                 accounts |-> Or3(Get(given, "accounts"), Get(legacy, "accounts"),
                                  Get(baseConfig, "accounts")),
                 kpiTargets |-> Or(Get(given, "kpiTargets"),
                                   Get(baseConfig, "kpiTargets"))]))
        legacyLogs ==
            IF IsArray(Get(legacy, "logs")) THEN Get(legacy, "logs")
            ELSE IF IsArray(Get(legacy, "dailyLogs")) THEN Get(legacy, "dailyLogs")
            ELSE IF IsArray(Get(legacy, "daily")) THEN Get(legacy, "daily")
            ELSE Arr(<<>>)
        legacyProspects ==
            IF IsArray(Get(legacy, "prospects")) THEN Get(legacy, "prospects")
            ELSE IF IsArray(Get(legacy, "leads")) THEN Get(legacy, "leads")
            ELSE Arr(<<>>)
    IN  IF config = Throw THEN Throw
        ELSE LET defaultAccountId ==
                     Or(Get(Elems(Get(config, "accounts"))[1], "id"),
                        AccountIdFor(0))
                 NLegacyLog(log, i) ==
                     normalizeLog(LegacyLog(log), defaultAccountId, env,
                                  <<"_legacy_", ToString(i)>>)
                 logs == NormalizeEach(legacyLogs, NLegacyLog)
             IN  IF logs = Throw THEN Throw
                 ELSE normalizeState(
                          Obj([config |-> config, logs |-> logs,
                               experiments |->
                                   IF IsArray(Get(legacy, "experiments"))
                                   THEN Get(legacy, "experiments")
                                   ELSE Arr(<<>>),
                               prospects |-> legacyProspects,
                               ui |-> Obj([isDark |->
                                   Coalesce3(Get(Get(legacy, "ui"), "isDark"),
                                             Get(legacy, "isDark"), B(TRUE))])]),
                          env)

migrateLegacyState(legacy, env) ==
    MigrateOnto(normalizeState(DEFAULT_STATE, env), legacy, env)

\* What loadState returns, or Throw.
Loaded(st, at, source) ==
    IF st = Throw THEN Throw
    ELSE Obj([state |-> st, savedAt |-> at, source |-> S(source)])

\* The for loop of loadState over the legacy keys, from key i on.
RECURSIVE LoadLegacy(_, _, _)
LoadLegacy(items, i, env) ==
    IF i > Len(items)
    THEN Loaded(normalizeState(DEFAULT_STATE, env), Null, "default")
    ELSE IF items[i] # Absent /\ Truthy(items[i])
    THEN Loaded(migrateLegacyState(items[i], env), Null, "legacy")
    ELSE LoadLegacy(items, i + 1, env)

loadState(store, env) ==
    LET parsed == store.current
    IN  IF parsed # Absent
           /\ Get(parsed, "schemaVersion") = N(SCHEMA_VERSION)
           /\ Truthy(Get(parsed, "data"))
        THEN Loaded(normalizeState(Get(parsed, "data"), env),
                    Or(Get(parsed, "savedAt"), Null), "storage")
        ELSE IF parsed # Absent
                /\ Truthy(Get(parsed, "schemaVersion"))
                /\ Truthy(Get(parsed, "data"))
        THEN Loaded(migrateLegacyState(Get(parsed, "data"), env),
                    Or(Get(parsed, "savedAt"), Null), "legacy")
        ELSE IF parsed # Absent
                /\ Truthy(Or3(Get(parsed, "logs"), Get(parsed, "experiments"),
                              Get(parsed, "prospects")))
        THEN Loaded(migrateLegacyState(parsed, env), Null, "legacy")
        ELSE LoadLegacy(store.legacy, 1, env)

\* The item saveState writes under STORAGE_KEY.
SavedPayload(st, env) ==
    Obj([schemaVersion |-> N(SCHEMA_VERSION), savedAt |-> NowISO(env),
         data |-> st])

makeLogDraft(accountId, env) ==
    Obj([date |-> Today(env), account_id |-> accountId,
         is_old_leads_lane |-> B(FALSE), campaign_tag |-> EmptyStr,
         experiment_id |-> EmptyStr, variant_id |-> EmptyStr,
         connection_requests_sent |-> N(0), connections_accepted |-> N(0),
         permission_messages_sent |-> N(0), permission_seen |-> N(0),
         permission_positives |-> N(0), offer_messages_sent |-> N(0),
         offer_seen |-> N(0), offer_or_booking_intent_positives |-> N(0),
         booked_calls |-> N(0), attended_calls |-> N(0),
         closed_deals |-> N(0), notes |-> EmptyStr])

(***************************************************************************)
(* Normalized records used as inputs of the analytics functions            *)
(***************************************************************************)
\* A normalized log with every count 0 (the shape normalizeLog returns).
BaseLog ==
    Obj([id |-> S("log"), date |-> D(1), account_id |-> AccountIdFor(0),
         is_old_leads_lane |-> B(FALSE), campaign_tag |-> EmptyStr,
         notes |-> EmptyStr, experiment_id |-> EmptyStr,
         variant_id |-> EmptyStr,
         connection_requests_sent |-> N(0), connections_accepted |-> N(0),
         permission_messages_sent |-> N(0), permission_seen |-> N(0),
         permission_positives |-> N(0), offer_messages_sent |-> N(0),
         offer_seen |-> N(0), offer_or_booking_intent_positives |-> N(0),
         booked_calls |-> N(0), attended_calls |-> N(0),
         closed_deals |-> N(0)])

UnitLog(f) == Put(BaseLog, f, N(1))

\* A log whose rates sit exactly at 0.9 * T for T = 100 (9/10) and for
\* T = 40 (9/25).
BoundaryLog ==
    PutAll(BaseLog,
           [connection_requests_sent |-> N(10), connections_accepted |-> N(9),
            permission_messages_sent |-> N(25), permission_seen |-> N(9),
            permission_positives |-> N(9),
            offer_or_booking_intent_positives |-> N(9), booked_calls |-> N(9),
            attended_calls |-> N(9), closed_deals |-> N(9)])

\* The basic funnel of the specification's scenario.
FunnelLog ==
    PutAll(BaseLog,
           [connection_requests_sent |-> N(100), connections_accepted |-> N(30),
            permission_messages_sent |-> N(30), permission_positives |-> N(3),
            offer_or_booking_intent_positives |-> N(2), booked_calls |-> N(1)])

KpiLogs == {UnitLog(f) : f \in CountFields} \cup {BoundaryLog, FunnelLog}

SeqsUpTo(set, n) == UNION {[1..k -> set] : k \in 0..n}

MaxKpiLogs == 3
MaxAggLogs == 3

KpiTotals == {computeAggregates(Arr(s)) : s \in SeqsUpTo(KpiLogs, MaxKpiLogs)}

\* Targets as normalizeConfig leaves them: finite numbers >= 0.
TargetVals == {N(0), N(40), Fr(49), N(100)}
KpiTargets ==
    {DEFAULT_TARGETS} \cup
    {Obj([k \in TargetKeys |-> IF k = key THEN other ELSE base]) :
        base \in TargetVals, other \in TargetVals, key \in TargetKeys}

(***************************************************************************)
(* The autosave effect of Dashboard().  autosaveTimer holds the timeouts   *)
(* that are still to fire, each with the state its callback closed over,   *)
(* the position autosaveTimer.current refers to (0 when that timeout has   *)
(* fired, was cleared or was never set), and whether the last run of the   *)
(* effect returned a cleanup function.                                     *)
(***************************************************************************)
NoTimer == [pending |-> <<>>, current |-> 0, cleanup |-> FALSE]

RemoveAt(seq, i) == SubSeq(seq, 1, i - 1) \o SubSeq(seq, i + 1, Len(seq))

\* clearTimeout(autosaveTimer.current)
ClearCurrent(timer) ==
    IF timer.current = 0 THEN timer
    ELSE [timer EXCEPT !.pending = RemoveAt(@, timer.current), !.current = 0]

\* state.config.autosave
AutosaveOn(st) == Truthy(Get(Get(st, "config"), "autosave"))

\* An effect that leaves a timeout it finds pending alone
AutosaveRun_keepsPending(timer, st, isDirty) ==
    IF timer.pending # <<>> THEN timer
    ELSE IF ~AutosaveOn(st) \/ ~isDirty THEN [timer EXCEPT !.cleanup = FALSE]
         ELSE [pending |-> <<st>>, current |-> 1, cleanup |-> TRUE]

\* One run of the effect for the render of (st, isDirty): the cleanup of
\* the previous run, then the body.
AutosaveRun(timer, st, isDirty) ==
    LET cleaned == IF timer.cleanup THEN ClearCurrent(timer) ELSE timer
    IN  IF ~AutosaveOn(st) \/ ~isDirty
        THEN [cleaned EXCEPT !.cleanup = FALSE]
        ELSE LET cleared == ClearCurrent(cleaned)
             IN  [pending |-> Append(cleared.pending, st),
                  current |-> Len(cleared.pending) + 1,
                  cleanup |-> TRUE]

\* The effect runs after a render in which state or dirty has changed.
AutosaveEffect ==
    autosaveTimer' = IF state' = state /\ dirty' = dirty THEN autosaveTimer
                     ELSE AutosaveRun(autosaveTimer, state', dirty')

(***************************************************************************)
(* Evaluation of the pure functions: the arguments are drawn in the        *)
(* initial state and one step applies the function.                        *)
(***************************************************************************)
NoOutput == <<"none">>
Returned(v) == <<"ok", v>>

\* The component state while a function is evaluated on its own.
AppIdle ==
    /\ state = Null
    /\ logDraft = Null
    /\ editingLogId = Null
    /\ dirty = FALSE
    /\ idCounter = 0
    /\ savedAt = Null
    /\ remote = "none"
    /\ storage = Null
    /\ autosaveTimer = NoTimer
    /\ loading = FALSE

InitAgg ==
    /\ AppIdle
    /\ pc = "computeAggregates"
    /\ input \in [logs : {Arr(s) : s \in SeqsUpTo(KpiLogs, MaxAggLogs)}]
    /\ output = NoOutput

ApplyComputeAggregates ==
    /\ pc = "computeAggregates"
    /\ pc' = "computeAggregates.done"
    /\ output' = Returned(computeAggregates(input.logs))
    /\ UNCHANGED <<input, appVars>>

NextAgg == ApplyComputeAggregates

SpecAgg == InitAgg /\ [][NextAgg]_vars

InitKpi ==
    /\ AppIdle
    /\ pc = "computeKpis"
    /\ input \in [totals : KpiTotals, targets : KpiTargets]
    /\ output = NoOutput

ApplyComputeKpis ==
    /\ pc = "computeKpis"
    /\ pc' = "computeKpis.done"
    /\ output' = Returned(computeKpis(input.totals, input.targets))
    /\ UNCHANGED <<input, appVars>>

NextKpi == ApplyComputeKpis

SpecKpi == InitKpi /\ [][NextKpi]_vars

(***************************************************************************)
(* Inputs and harness of the experiment evaluator                          *)
(***************************************************************************)
MaxVariants == 2
MaxExpLogs == 2

ExperimentId == S("exp1")
VariantId(i) == Str(<<"variant_", ToString(i)>>)

\* Stage, primary metric and required sample size of the experiment: the
\* four stage defaults and two overrides made in the experiment form.
ExpSettings ==
    { <<"CONNECTION", "CR", 0>>, <<"PERMISSION", "PRR", 60>>,
      <<"OFFER", "ABR", 30>>, <<"BOOKING", "BOOKED_KPI", 0>>,
      <<"PERMISSION", "ABR", 60>>, <<"PERMISSION", "PRR", 0>> }

ExperimentOf(setting) ==
    Obj([id |-> ExperimentId, name |-> S("Experiment"), status |-> S("running"),
         funnel_stage_targeted |-> S(setting[1]),
         primary_metric |-> S(setting[2]),
         required_sample_size_seen |-> N(setting[3]),
         variants |-> Arr([i \in 1..MaxVariants |->
                            Obj([id |-> VariantId(i), name |-> S("Variant"),
                                 message |-> EmptyStr,
                                 step_type |-> S("PERMISSION")])])])

\* The count patterns of the logs of a variant.
Counts(crs, ca, pms, ps, pp, oms, os, oobip, bc) ==
    [connection_requests_sent |-> N(crs), connections_accepted |-> N(ca),
     permission_messages_sent |-> N(pms), permission_seen |-> N(ps),
     permission_positives |-> N(pp), offer_messages_sent |-> N(oms),
     offer_seen |-> N(os), offer_or_booking_intent_positives |-> N(oobip),
     booked_calls |-> N(bc)]

LogShapes ==
    { \* one short of the sample size, the best rates among the main lane
      PutAll(Obj(Counts(10, 9, 100, 59, 90, 100, 29, 90, 90)), [date |-> D(1)])[2],
      \* messages sent, none recorded as seen
      PutAll(Obj(Counts(10, 5, 100, 0, 50, 100, 0, 50, 50)), [date |-> D(1)])[2],
      \* the sample size reached, every rate 0
      PutAll(Obj(Counts(10, 0, 10, 60, 0, 10, 30, 0, 0)), [date |-> D(2)])[2],
      \* one more seen
      PutAll(Obj(Counts(0, 0, 0, 1, 0, 0, 1, 0, 0)), [date |-> D(2)])[2],
      \* old-leads lane, the sample size reached, high rates
      PutAll(Obj(Counts(10, 10, 100, 60, 95, 100, 30, 95, 95)),
             [date |-> D(2), is_old_leads_lane |-> B(TRUE)])[2] }

ExpLogs ==
    { PutAll(PutAll(BaseLog, shape),
             [experiment_id |-> ExperimentId, variant_id |-> VariantId(i)]) :
        shape \in LogShapes, i \in 1..MaxVariants }

FiltersOf(start, end) ==
    Obj([start |-> start, end |-> end, accountId |-> S("all"),
         campaignTag |-> S("all")])

ConfigOf(excludeOld) ==
    Obj([kpiTargets |-> DEFAULT_TARGETS, excludeOldLeadsFromKpi |-> B(excludeOld)])

\* The filter and old-leads policy combinations.
ExpViews ==
    { [filters |-> FiltersOf(EmptyStr, EmptyStr), config |-> ConfigOf(TRUE)],
      [filters |-> FiltersOf(EmptyStr, EmptyStr), config |-> ConfigOf(FALSE)],
      [filters |-> FiltersOf(D(2), D(2)), config |-> ConfigOf(TRUE)] }

\* The same log and experiment as the provider state of the page holds them.
CamelLog(log) ==
    Obj([id |-> Get(log, "id"), date |-> Get(log, "date"),
         accountId |-> Get(log, "account_id"),
         isOldLeadsLane |-> Get(log, "is_old_leads_lane"),
         campaignTag |-> Get(log, "campaign_tag"),
         experimentId |-> Get(log, "experiment_id"),
         variantId |-> Get(log, "variant_id"),
         connectionRequestsSent |-> Get(log, "connection_requests_sent"),
         connectionsAccepted |-> Get(log, "connections_accepted"),
         permissionMessagesSent |-> Get(log, "permission_messages_sent"),
         permissionSeen |-> Get(log, "permission_seen"),
         permissionPositives |-> Get(log, "permission_positives"),
         offerMessagesSent |-> Get(log, "offer_messages_sent"),
         offerSeen |-> Get(log, "offer_seen"),
         offerOrBookingIntentPositives |->
             Get(log, "offer_or_booking_intent_positives"),
         bookedCalls |-> Get(log, "booked_calls")])

CamelExperimentOf(setting) ==
    Obj([id |-> ExperimentId, name |-> S("Experiment"), status |-> S("running"),
         funnelStageTargeted |-> S(setting[1]),
         primaryMetric |-> S(setting[2]),
         requiredSampleSizeSeen |-> N(setting[3]),
         variants |-> Arr([i \in 1..MaxVariants |->
                            Obj([id |-> VariantId(i), label |-> S("Variant")])])])

InitExp ==
    /\ AppIdle
    /\ output = NoOutput
    /\ \/ /\ pc = "computeExperimentStats"
          /\ \E setting \in ExpSettings, logs \in SeqsUpTo(ExpLogs, MaxExpLogs),
                view \in ExpViews :
                input = [experiments |-> Arr(<<ExperimentOf(setting)>>),
                         logs |-> Arr(logs), filters |-> view.filters,
                         config |-> view.config]
       \/ /\ pc = "experimentSummaries"
          /\ \E setting \in ExpSettings, logs \in SeqsUpTo(ExpLogs, MaxExpLogs),
                excludeOld \in BOOLEAN :
                input = [experiments |-> Arr(<<CamelExperimentOf(setting)>>),
                         dailyLogs |-> Arr([i \in 1..Len(logs) |-> CamelLog(logs[i])]),
                         settings |-> Obj([excludeOldLeadsFromKpi |-> B(excludeOld)])]

ApplyComputeExperimentStats ==
    /\ pc = "computeExperimentStats"
    /\ pc' = "computeExperimentStats.done"
    /\ output' = Returned(computeExperimentStats(input.experiments, input.logs,
                                                 input.filters, input.config))
    /\ UNCHANGED <<input, appVars>>

ApplyExperimentSummaries ==
    /\ pc = "experimentSummaries"
    /\ pc' = "experimentSummaries.done"
    /\ output' = Returned(experimentSummaries(input.experiments,
                     filteredLogsMain(input.dailyLogs, input.settings)))
    /\ UNCHANGED <<input, appVars>>

NextExp == ApplyComputeExperimentStats \/ ApplyExperimentSummaries

SpecExp == InitExp /\ [][NextExp]_vars

(***************************************************************************)
(* Inputs and harness of the normalizer                                    *)
(***************************************************************************)
MaxRawRecords == 2

\* Values a field of a stored or fetched record may hold.
RawValues ==
    { Undef, Null, B(TRUE), B(FALSE), N(0), N(5), N(-3), Fr(2), NaN, Inf,
      EmptyStr, S("x"), S(" "), Str(<<" ", "x", " ">>), S("7"), S("-7"),
      S("7.5"), S("old"), D(1), Arr(<<>>), Obj([x |-> N(1)]) }

\* The objects that hold one of the fields.
Probes(fields) == {Put(EmptyObj, f, v) : f \in fields, v \in RawValues}

LogFields ==
    { "id", "date", "account_id", "accountId", "is_old_leads_lane",
      "isOldLeadsLane", "lane", "campaign_tag", "tag", "notes",
      "experiment_id", "experimentId", "variant_id", "variantId",
      "accepted", "sent", "initiated", "seen", "mediaSeen", "positive",
      "engaged", "calendly", "booked" } \cup CountFields

VariantFields ==
    {"id", "name", "message", "messageText", "step_type", "stepType"}

ExperimentFields ==
    { "id", "name", "status", "hypothesis", "notes", "createdAt",
      "funnel_stage_targeted", "stage", "primary_metric",
      "required_sample_size_seen", "variants", "messageText", "messageLabel" }

ProspectFields ==
    { "id", "name", "linkedin_url", "linkedinUrl", "notes", "account_id",
      "accountId", "is_old_leads_lane", "lane", "stage" }

RawLogs == Probes(LogFields) \cup {BaseLog}

RawExperiments ==
    Probes(ExperimentFields)
    \cup {Obj([variants |-> Arr(<<v>>)]) : v \in Probes(VariantFields)}
    \cup {Obj([funnel_stage_targeted |-> S(st)]) :
            st \in {"CONNECTION", "PERMISSION", "OFFER", "BOOKING"}}

RawProspects ==
    Probes(ProspectFields)
    \cup {Obj([stage |-> S(FUNNEL_STAGES[i])]) : i \in 1..Len(FUNNEL_STAGES)}

RawConfigs ==
    Probes({"autosave", "excludeOldLeadsFromKpi", "kpiTargets", "accounts"})
    \cup {Obj([kpiTargets |-> t]) : t \in Probes(DOMAIN DEFAULT_TARGETS[2])}
    \cup {Obj([accounts |-> Arr(<<a>>)]) : a \in Probes({"id", "name", "goals"})}
    \cup {Obj([accounts |-> Arr(<<Obj([goals |-> g])>>)]) : g \in Probes(GoalFields)}

\* Records that stand next to one another in a collection.
FewRecords == {Null, EmptyObj, Obj([name |-> S(" "), notes |-> S("x")])}

RawCollections(records) ==
    RawValues
    \cup {Arr(<<r>>) : r \in records}
    \cup {Arr(rs) : rs \in SeqsUpTo(FewRecords, MaxRawRecords)}

RawStates ==
    RawValues \cup {EmptyObj, DEFAULT_STATE}
    \cup {Obj([config |-> c]) : c \in RawValues \cup RawConfigs}
    \cup {Obj([logs |-> c]) : c \in RawCollections(RawLogs)}
    \cup {Obj([experiments |-> c]) : c \in RawCollections(RawExperiments)}
    \cup {Obj([prospects |-> c]) : c \in RawCollections(RawProspects)}
    \cup {Obj([ui |-> u]) : u \in RawValues \cup Probes({"isDark"})}

\* What the first and the second run draw from makeId() and the clock.
FirstRun == [ids |-> 1, today |-> 1]
SecondRun == [ids |-> 2, today |-> 2]

InitNorm ==
    /\ AppIdle
    /\ pc = "normalizeState"
    /\ input \in [raw : RawStates]
    /\ output = NoOutput

\* normalizeState(raw)
ApplyNormalizeState ==
    /\ pc = "normalizeState"
    /\ pc' = "normalizeState.done"
    /\ LET normalized == normalizeState(input.raw, FirstRun)
       IN  output' = IF normalized = Throw THEN Throw ELSE Returned(normalized)
    /\ UNCHANGED <<input, appVars>>

\* normalizeState(normalizeState(raw)), when the first call returned
ReapplyNormalizeState ==
    /\ pc = "normalizeState.done"
    /\ output # Throw
    /\ pc' = "normalizeState.twice"
    /\ input' = [raw |-> input.raw, once |-> output[2]]
    /\ LET normalized == normalizeState(output[2], SecondRun)
       IN  output' = IF normalized = Throw THEN Throw ELSE Returned(normalized)
    /\ UNCHANGED appVars

NextNorm == ApplyNormalizeState \/ ReapplyNormalizeState

SpecNorm == InitNorm /\ [][NextNorm]_vars

(***************************************************************************)
(* utils/migrations.ts                                                     *)
(***************************************************************************)
\* normalizeLog of utils/migrations.ts, which returns a DailyLog.
normalizeDailyLog(log, defaultAccountName) ==
    LET calendlyValue == Coalesce3(Get(log, "calendly"),
                                   Get(log, "calendlySent"), N(0))
    IN  Obj([id |-> Get(log, "id"),
             date |-> Get(log, "date"),
             experimentId |-> Or(Get(log, "experimentId"), EmptyStr),
             variantId |-> Get(log, "variantId"),
             campaignTag |-> Or(Or3(Get(log, "campaignTag"),
                                    Get(log, "campaign"), Get(log, "tag")),
                                EmptyStr),
             channel |-> Or(Get(log, "channel"), S("linkedin")),
             accountId |-> Or3(Get(log, "accountId"), Get(log, "account_id"),
                               defaultAccountName),
             isOldLeadsLane |-> Coalesce3(Get(log, "isOldLeadsLane"),
                                          Get(log, "isOldLane"), B(FALSE)),
             connectionRequestsSent |->
                 Coalesce3(Get(log, "connectionRequestsSent"),
                           Get(log, "connection_requests_sent"), N(0)),
             connectionsAccepted |->
                 Coalesce3(Get(log, "connectionsAccepted"),
                           Get(log, "accepted"), N(0)),
             permissionMessagesSent |->
                 Coalesce3(Get(log, "permissionMessagesSent"),
                           Get(log, "sent"), N(0)),
             permissionSeen |->
                 Coalesce3(Get(log, "permissionSeen"), Get(log, "seen"), N(0)),
             permissionPositives |->
                 Coalesce(Coalesce3(Get(log, "permissionPositives"),
                                    Get(log, "positive"),
                                    Get(log, "positiveReplies")), N(0)),
             offerMessagesSent |-> Coalesce(Get(log, "offerMessagesSent"), N(0)),
             offerSeen |-> Coalesce(Get(log, "offerSeen"), N(0)),
             offerOrBookingIntentPositives |->
                 Coalesce3(Get(log, "offerOrBookingIntentPositives"),
                           Get(log, "offerPositives"),
                           IF IsPositive(calendlyValue) THEN calendlyValue
                           ELSE N(0)),
             bookedCalls |->
                 Coalesce3(Get(log, "bookedCalls"), Get(log, "booked"), N(0)),
             attendedCalls |->
                 Coalesce3(Get(log, "attendedCalls"), Get(log, "attended"), N(0)),
             closedDeals |->
                 Coalesce3(Get(log, "closedDeals"), Get(log, "closed"), N(0)),
             notes |-> Or(Get(log, "notes"), EmptyStr)])

(***************************************************************************)
(* Evaluation of normalizeLog on logs that carry aliases                   *)
(***************************************************************************)
\* The object with the fields of r that are not undefined.
Compact(r) == Obj([k \in {x \in DOMAIN r : r[x] # Undef} |-> r[k]])

\* Logs in which the aliases of booked calls and of permission seen hold
\* different values, so that the result tells which alias was read.
AliasedLogs ==
    { Compact([booked_calls |-> a, bookedCalls |-> b, booked |-> c,
               permission_seen |-> d, seen |-> e]) :
        a \in {Undef, Null, N(0), N(1)}, b \in {Undef, N(0), N(2)},
        c \in {Undef, N(0), N(3)}, d \in {Undef, N(0), N(4)},
        e \in {Undef, N(6)} }

InitLog ==
    /\ AppIdle
    /\ pc \in {"normalizeLog", "migrations.normalizeLog"}
    /\ input \in [log : AliasedLogs]
    /\ output = NoOutput

\* normalizeLog of Dashboard.jsx
ApplyNormalizeLog ==
    /\ pc = "normalizeLog"
    /\ pc' = "normalizeLog.done"
    /\ output' = Returned(normalizeLog(input.log, AccountIdFor(0), FirstRun,
                                       <<"_log">>))
    /\ UNCHANGED <<input, appVars>>

\* normalizeLog of utils/migrations.ts
ApplyNormalizeDailyLog ==
    /\ pc = "migrations.normalizeLog"
    /\ pc' = "migrations.normalizeLog.done"
    /\ output' = Returned(normalizeDailyLog(input.log, S("Account 1")))
    /\ UNCHANGED <<input, appVars>>

NextLog == ApplyNormalizeLog \/ ApplyNormalizeDailyLog

SpecLog == InitLog /\ [][NextLog]_vars

(***************************************************************************)
(* Evaluation of migrateLegacyState on a legacy state with one log         *)
(***************************************************************************)
LegacyLogs ==
    { Compact([sent |-> a, accepted |-> b, booked |-> c, calendly |-> d,
               calendlySent |-> e]) :
        a \in {Undef, N(50)}, b \in {Undef, N(10)}, c \in {Undef, N(2)},
        d \in {Undef, N(0), N(7)}, e \in {Undef, N(0), N(4)} }

\* Legacy states keep their logs under logs, dailyLogs or daily.
LegacyStates ==
    {Put(EmptyObj, key, Arr(<<log>>)) :
        key \in {"logs", "dailyLogs", "daily"}, log \in LegacyLogs}

InitLegacy ==
    /\ AppIdle
    /\ pc = "migrateLegacyState"
    /\ input \in [legacy : LegacyStates]
    /\ output = NoOutput

ApplyMigrateLegacyState ==
    /\ pc = "migrateLegacyState"
    /\ pc' = "migrateLegacyState.done"
    /\ output' = Returned(migrateLegacyState(input.legacy, FirstRun))
    /\ UNCHANGED <<input, appVars>>

NextLegacy == ApplyMigrateLegacyState

SpecLegacy == InitLegacy /\ [][NextLegacy]_vars

(***************************************************************************)
(* utils/migrations.ts: the stage of a migrated lead                       *)
(***************************************************************************)
\* normalizeLeadStage with the legacy code S read as CONNECTED
normalizeLeadStage_seenAsConnected(stage) ==
    IF ~Truthy(stage) THEN S("REQUESTED")
    ELSE IF stage \in {S("REQUESTED"), S("CONNECTED"), S("PERMISSION_SENT"),
                       S("PERMISSION_POSITIVE"), S("OFFER_POSITIVE"),
                       S("BOOKED"), S("ATTENDED"), S("CLOSED"), S("LOST")}
    THEN stage
    ELSE CASE stage \in {S("PERMISSION_POS"), S("B")} -> S("PERMISSION_POSITIVE")
           [] stage \in {S("OFFER_POS"), S("C")} -> S("OFFER_POSITIVE")
           [] stage = S("D") -> S("BOOKED")
           [] stage = S("A") -> S("PERMISSION_SENT")
           [] stage = S("S") -> S("CONNECTED")
           [] stage = S("X") -> S("LOST")
           [] OTHER -> S("REQUESTED")

normalizeLeadStage(stage) ==
    IF ~Truthy(stage) THEN S("REQUESTED")
    ELSE IF stage \in {S("REQUESTED"), S("CONNECTED"), S("PERMISSION_SENT"),
                       S("PERMISSION_POSITIVE"), S("OFFER_POSITIVE"),
                       S("BOOKED"), S("ATTENDED"), S("CLOSED"), S("LOST")}
    THEN stage
    ELSE CASE stage \in {S("PERMISSION_POS"), S("B")} -> S("PERMISSION_POSITIVE")
           [] stage \in {S("OFFER_POS"), S("C")} -> S("OFFER_POSITIVE")
           [] stage = S("D") -> S("BOOKED")
           [] stage \in {S("A"), S("S")} -> S("PERMISSION_SENT")
           [] stage = S("ATTENDED") -> S("ATTENDED")
           [] stage = S("CLOSED") -> S("CLOSED")
           [] stage = S("X") -> S("LOST")
           [] OTHER -> S("REQUESTED")

\* One element of migratedLeads in migrateData.
MigrateLead(lead, defaultAccountName) ==
    PutAll(lead,
           [stage |-> normalizeLeadStage(Get(lead, "stage")),
            accountId |-> Or(Get(lead, "accountId"), defaultAccountName),
            isOldLeadsLane |-> Coalesce3(Get(lead, "isOldLeadsLane"),
                                         Get(lead, "isOldLane"), B(FALSE))])

MaxLeads == 2

\* Stages found on stored leads: the canonical stages, the legacy codes and
\* short enums, none, and values that are none of these.
LeadStages ==
    {S(c) : c \in {"REQUESTED", "CONNECTED", "PERMISSION_SENT",
                   "PERMISSION_POSITIVE", "OFFER_POSITIVE", "BOOKED",
                   "ATTENDED", "CLOSED", "LOST"}}
    \cup {S(c) : c \in {"A", "S", "B", "C", "D", "X", "PERMISSION_POS",
                        "OFFER_POS"}}
    \cup {Undef, Null, EmptyStr, N(0), N(5), B(TRUE),
          S("b"), S("Z"), S("OFFER"), Str(<<" ", "B">>)}

InitLeads ==
    /\ AppIdle
    /\ pc = "migratedLeads"
    /\ input \in [leads : {Arr(s) : s \in SeqsUpTo({Compact([name |-> S("L"),
                                                             stage |-> v]) :
                                                       v \in LeadStages},
                                                    MaxLeads)}]
    /\ output = NoOutput

\* (oldData?.leads || []).map(...)
ApplyMigrateLeads ==
    /\ pc = "migratedLeads"
    /\ pc' = "migratedLeads.done"
    /\ output' = Returned(Arr([i \in 1..Len(Elems(input.leads)) |->
                                 MigrateLead(Elems(input.leads)[i],
                                             Str(<<"Account", " ", "1">>))]))
    /\ UNCHANGED <<input, appVars>>

NextLeads == ApplyMigrateLeads

SpecLeads == InitLeads /\ [][NextLeads]_vars

(***************************************************************************)
(* Evaluation of filterLogs and of the filtered totals of the dashboard    *)
(***************************************************************************)
MaxFilterLogs == 2

\* Normalized logs that differ in what the criteria look at.
FilterLog(id, day, account, tag, old, experiment, variant, booked) ==
    PutAll(BaseLog,
           [id |-> S(id), date |-> D(day), account_id |-> AccountIdFor(account),
            campaign_tag |-> tag, is_old_leads_lane |-> B(old),
            experiment_id |-> experiment, variant_id |-> variant,
            booked_calls |-> N(booked)])

FilterLogShapes ==
    { FilterLog("l1", 1, 0, EmptyStr, FALSE, EmptyStr, EmptyStr, 1),
      FilterLog("l2", 2, 0, S("x"), TRUE, S("e1"), S("v1"), 5),
      FilterLog("l3", 3, 1, S("x"), FALSE, S("e1"), S("v2"), 2),
      FilterLog("l4", 2, 1, EmptyStr, TRUE, S("e2"), S("v3"), 3),
      FilterLog("l5", 2, 0, S("x"), FALSE, S("e1"), S("v1"), 4) }

FilterLogLists == {Arr(s) : s \in SeqsUpTo(FilterLogShapes, MaxFilterLogs)}

\* The filters state of the component: start, end, accountId, campaignTag.
UiFilters ==
    { Obj([start |-> st, end |-> en, accountId |-> a, campaignTag |-> t]) :
        st \in {Undef, D(2)}, en \in {Undef, D(2)},
        a \in {Undef, S("all"), AccountIdFor(0)},
        t \in {Undef, S("all"), S("x")} }

\* Criteria a caller of filterLogs may supply; Undef for an omitted one.
FilterCriteria ==
    { PutAll(f, [experimentId |-> e, variantId |-> v,
                 onlyOldLeads |-> only, excludeOldLeads |-> excl]) :
        f \in UiFilters, e \in {Undef, S("e1")}, v \in {Undef, S("v1")},
        only \in {Undef, B(TRUE)}, excl \in {Undef, B(TRUE)} }

InitFilter ==
    /\ AppIdle
    /\ \/ /\ pc = "filterLogs"
          /\ input \in [logs : FilterLogLists, filters : FilterCriteria]
       \/ /\ pc = "totals"
          /\ input \in [logs : FilterLogLists, filters : UiFilters,
                        excludeOldLeadsFromKpi : BOOLEAN]
    /\ output = NoOutput

ApplyFilterLogs ==
    /\ pc = "filterLogs"
    /\ pc' = "filterLogs.done"
    /\ output' = Returned(filterLogs(input.logs, input.filters))
    /\ UNCHANGED <<input, appVars>>

\* The memos filteredLogs, oldLeadsLogs, totals and oldLeadsTotals.
ApplyDashboardTotals ==
    /\ pc = "totals"
    /\ pc' = "totals.done"
    /\ LET filteredLogs ==
               filterLogs(input.logs,
                          Put(input.filters, "excludeOldLeads",
                              B(input.excludeOldLeadsFromKpi)))
           oldLeadsLogs ==
               filterLogs(input.logs,
                          Put(input.filters, "onlyOldLeads", B(TRUE)))
       IN  output' = Returned([filteredLogs |-> filteredLogs,
                               oldLeadsLogs |-> oldLeadsLogs,
                               totals |-> computeAggregates(filteredLogs),
                               oldLeadsTotals |-> computeAggregates(oldLeadsLogs)])
    /\ UNCHANGED <<input, appVars>>

NextFilter == ApplyFilterLogs \/ ApplyDashboardTotals

SpecFilter == InitFilter /\ [][NextFilter]_vars

(***************************************************************************)
(* The Dashboard component                                                 *)
(***************************************************************************)
MaxLogs == 1
MaxIds == 1

\* What a handler run draws from makeId() and the clock; the session stays
\* within day 1.
Run(k) == [ids |-> k, today |-> 1]

\* Whether id came from makeId() in run k.
IsDrawn(id, k) ==
    /\ Tag(id) = "str" /\ Len(id[2]) >= 2
    /\ id[2][1] = "id_" /\ id[2][2] = ToString(k)

\* Whether some record of the state got its id from makeId() in run k.
DrewIds(st, k) ==
    \/ \E f \in {"logs", "experiments", "prospects"} :
          \E i \in 1..Len(Elems(Get(st, f))) :
              IsDrawn(Get(Elems(Get(st, f))[i], "id"), k)
    \/ \E i \in 1..Len(Elems(Get(st, "experiments"))) :
          LET vs == Elems(Get(Elems(Get(st, "experiments"))[i], "variants"))
          IN  \E j \in 1..Len(vs) : IsDrawn(Get(vs[j], "id"), k)

\* accounts[0]?.id || "account_1"
DefaultAccountIdOf(st) ==
    LET accounts == Elems(Get(Get(st, "config"), "accounts"))
    IN  IF accounts = <<>> THEN AccountIdFor(0)
        ELSE Or(Get(accounts[1], "id"), AccountIdFor(0))

\* a.date > b.date for two ISO date strings
DateAfter(a, b) ==
    Tag(Get(a, "date")) = "date" /\ Tag(Get(b, "date")) = "date"
    /\ Get(a, "date")[2] > Get(b, "date")[2]

\* logs.sort((a, b) => (a.date > b.date ? -1 : 1)): later dates first; the
\* comparator never answers 0, so the order of the other pairs is the
\* engine's choice.
SortOutcomes(logs) ==
    LET n == Len(logs)
    IN  { Arr([i \in 1..n |-> logs[p[i]]]) :
            p \in { q \in Permutations(1..n) :
                      \A i, j \in 1..n :
                          i < j => ~DateAfter(logs[q[j]], logs[q[i]]) } }

\* Logs found in storage or fetched: a fractional count; a negative count
\* under an alias and a count spelled as text; notes that are a number.
FractionLog == Obj([id |-> S("s1"), date |-> D(1), permission_seen |-> Fr(2)])
AliasLog == Obj([date |-> D(2), seen |-> N(-3), calendly |-> S("7.5")])
NumberNotesLog == Obj([id |-> S("s1"), notes |-> N(5)])

StoredLogs == {FractionLog, AliasLog, NumberNotesLog}

DataOf(log) == Obj([logs |-> Arr(<<log>>)])

NoLegacy == <<Absent, Absent, Absent>>

\* Nothing stored; an item of this schema version; an item of an older
\* version; a legacy key.
Stores ==
    {[current |-> Absent, legacy |-> NoLegacy]}
    \cup {[current |-> Obj([schemaVersion |-> N(SCHEMA_VERSION),
                            savedAt |-> S("T0"), data |-> DataOf(l)]),
           legacy |-> NoLegacy] : l \in StoredLogs}
    \cup {[current |-> Obj([schemaVersion |-> N(SCHEMA_VERSION - 1),
                            data |-> DataOf(FractionLog)]),
           legacy |-> NoLegacy],
          [current |-> Absent,
           legacy |-> <<Absent, DataOf(AliasLog), Absent>>]}

\* What the Supabase queries answer: data, or null with an error.
RemoteResults ==
    {[settings |-> Null, logs |-> Null],
     [settings |-> Null, logs |-> Arr(<<AliasLog>>)],
     [settings |-> Null, logs |-> Arr(<<NumberNotesLog>>)],
     [settings |-> Obj([data |-> Obj([accounts |-> Arr(<<Obj([id |-> S("r")])>>)])]),
      logs |-> Null]}

\* What the user types into a count field and into the id of an account.
TypedCounts == {S("7.5"), S("-7")}
TypedAccountIds == {S("a")}
DraftCountFields == {"permission_seen"}
RenamedAccounts == {1}

\* Before the first render: the browser holds some storage; a build with a
\* Supabase client starts from empty storage.
Init ==
    /\ pc = "mount"
    /\ state = Null /\ logDraft = Null /\ editingLogId = Null
    /\ dirty = FALSE /\ idCounter = 0 /\ savedAt = Null /\ remote = "none"
    /\ autosaveTimer = NoTimer
    /\ loading = FALSE
    /\ storage \in Stores
    /\ input \in [supabase : BOOLEAN]
    /\ input.supabase => storage.current = Absent /\ storage.legacy = NoLegacy
    /\ output = NoOutput

\* Dashboard(): the first render, initial = loadState().
Mount ==
    /\ pc = "mount"
    /\ \E env \in {Run(idCounter + 1)} :
       \E initial \in {loadState(storage, env)} :
           IF initial = Throw
           THEN /\ pc' = "crashed"
                /\ UNCHANGED <<state, logDraft, editingLogId, dirty, idCounter,
                               savedAt, remote>>
           ELSE /\ pc' = "ready"
                /\ state' = Get(initial, "state")
                /\ savedAt' = Get(initial, "savedAt")
                /\ dirty' = FALSE
                /\ logDraft' = makeLogDraft(DefaultAccountIdOf(Get(initial, "state")), env)
                /\ editingLogId' = Null
                /\ remote' = IF input.supabase /\ Get(initial, "source") = S("default")
                             THEN "pending" ELSE "none"
                /\ idCounter' = IF DrewIds(Get(initial, "state"), env.ids)
                                THEN idCounter + 1 ELSE idCounter
    /\ UNCHANGED <<storage, input, output, loading>>
    /\ AutosaveEffect

\* loadFromSupabase: the four queries have answered.
RemoteStateOf(res, env) ==
    normalizeState(
        Obj([config |-> Or(Get(res.settings, "data"),
                           Get(normalizeState(DEFAULT_STATE, env), "config")),
             logs |-> Or(res.logs, Arr(<<>>)),
             experiments |-> Arr(<<>>),
             prospects |-> Arr(<<>>),
             ui |-> Get(normalizeState(DEFAULT_STATE, env), "ui")]),
        env)

\* loadFromSupabase that leaves the dirty flag alone
RemoteLoadCall_keepsDirty(res) ==
    /\ pc = "ready" /\ remote = "pending"
    /\ remote' = "done"
    /\ \E env \in {Run(idCounter + 1)} :
       \E nextState \in {RemoteStateOf(res, env)} :
             IF nextState = Throw
             THEN UNCHANGED <<state, savedAt, dirty, idCounter>>
             ELSE /\ state' = nextState
                  /\ savedAt' = Null
                  /\ dirty' = dirty
                  /\ idCounter' = IF DrewIds(nextState, env.ids)
                                  THEN idCounter + 1 ELSE idCounter
    /\ UNCHANGED <<logDraft, editingLogId, storage, pc, input, output, loading>>
    /\ AutosaveEffect

\* loadFromSupabase once the queries have answered res
RemoteLoadCall(res) ==
    /\ pc = "ready" /\ remote = "pending"
    /\ remote' = "done"
    /\ \E env \in {Run(idCounter + 1)} :
       \E nextState \in {RemoteStateOf(res, env)} :
             IF nextState = Throw
             THEN UNCHANGED <<state, savedAt, dirty, idCounter>>
             ELSE /\ state' = nextState
                  /\ savedAt' = Null
                  /\ dirty' = FALSE
                  /\ idCounter' = IF DrewIds(nextState, env.ids)
                                  THEN idCounter + 1 ELSE idCounter
    /\ UNCHANGED <<logDraft, editingLogId, storage, pc, input, output, loading>>
    /\ AutosaveEffect

\* loadFromSupabase: the four queries have answered.
RemoteLoad ==
    /\ pc = "ready"
    /\ \E res \in RemoteResults : RemoteLoadCall(res)

\* onChange of a count field of the log form
SetDraftCount ==
    /\ pc = "ready"
    /\ \E f \in DraftCountFields, typed \in TypedCounts :
          logDraft' = Put(logDraft, f, clampNonNegInt(typed))
    /\ UNCHANGED <<state, editingLogId, dirty, idCounter, savedAt, remote,
                   storage, pc, input, output, loading>>
    /\ AutosaveEffect

handleSaveLog ==
    /\ pc = "ready"
    /\ Truthy(editingLogId) \/
          (Len(Elems(Get(state, "logs"))) < MaxLogs /\ idCounter < MaxIds)
    /\ LET env == Run(idCounter + 1)
           defaultAccountId == DefaultAccountIdOf(state)
           entry == normalizeLog(
                        Put(logDraft, "id", Or(editingLogId, makeId(env, <<>>))),
                        defaultAccountId, env, <<"_log">>)
           prev == Elems(Get(state, "logs"))
           logs == IF Truthy(editingLogId)
                   THEN [i \in 1..Len(prev) |->
                            IF Get(prev[i], "id") = editingLogId
                            THEN entry ELSE prev[i]]
                   ELSE Append(prev, entry)
       IN  /\ entry # Throw
           /\ \E sorted \in SortOutcomes(logs) :
                 state' = Put(state, "logs", sorted)
           /\ dirty' = TRUE
           /\ editingLogId' = Null
           /\ logDraft' = makeLogDraft(defaultAccountId, env)
           /\ idCounter' = IF Truthy(editingLogId) THEN idCounter
                           ELSE idCounter + 1
    /\ UNCHANGED <<savedAt, remote, storage, pc, input, output, loading>>
    /\ AutosaveEffect

handleEditLog ==
    /\ pc = "ready"
    /\ \E i \in 1..Len(Elems(Get(state, "logs"))) :
          LET log == Elems(Get(state, "logs"))[i]
          IN  /\ editingLogId' = Get(log, "id")
              /\ logDraft' = log
    /\ UNCHANGED <<state, dirty, idCounter, savedAt, remote, storage, pc,
                   input, output, loading>>
    /\ AutosaveEffect

handleDeleteLog ==
    /\ pc = "ready"
    /\ \E i \in 1..Len(Elems(Get(state, "logs"))) :
          LET id == Get(Elems(Get(state, "logs"))[i], "id")
          IN  state' = Put(state, "logs",
                  Arr(SelectSeq(Elems(Get(state, "logs")),
                                LAMBDA log : Get(log, "id") # id)))
    /\ dirty' = TRUE
    /\ UNCHANGED <<logDraft, editingLogId, idCounter, savedAt, remote, storage,
                   pc, input, output, loading>>
    /\ AutosaveEffect

\* updateAccountId without the cascade to the prospects
UpdateAccountIdCall_logsOnly(index, nextId) ==
    LET accounts == Elems(Get(Get(state, "config"), "accounts"))
        oldId == Get(accounts[index], "id")
        accountsNext == [accounts EXCEPT ![index] = Put(@, "id", nextId)]
        logs == Elems(Get(state, "logs"))
    IN  /\ state' = PutAll(state,
               [config |-> Put(Get(state, "config"), "accounts",
                               Arr(accountsNext)),
                logs |-> Arr([i \in 1..Len(logs) |->
                                IF Get(logs[i], "account_id") = oldId
                                THEN Put(logs[i], "account_id", nextId)
                                ELSE logs[i]])])
        /\ dirty' = TRUE
        /\ UNCHANGED <<logDraft, editingLogId, idCounter, savedAt, remote,
                       storage, pc, input, output, loading>>
        /\ AutosaveEffect

UpdateAccountIdCall(index, nextId) ==
    LET accounts == Elems(Get(Get(state, "config"), "accounts"))
        oldId == Get(accounts[index], "id")
        accountsNext == [accounts EXCEPT ![index] = Put(@, "id", nextId)]
        Renamed(rs) ==
            Arr([i \in 1..Len(rs) |->
                   IF Get(rs[i], "account_id") = oldId
                   THEN Put(rs[i], "account_id", nextId) ELSE rs[i]])
    IN  /\ state' = PutAll(state,
               [config |-> Put(Get(state, "config"), "accounts",
                               Arr(accountsNext)),
                logs |-> Renamed(Elems(Get(state, "logs"))),
                prospects |-> Renamed(Elems(Get(state, "prospects")))])
        /\ dirty' = TRUE
        /\ UNCHANGED <<logDraft, editingLogId, idCounter, savedAt, remote,
                       storage, pc, input, output, loading>>
        /\ AutosaveEffect

\* onChange of the Account ID field of an account card
updateAccountId ==
    /\ pc = "ready"
    /\ \E index \in RenamedAccounts, nextId \in TypedAccountIds :
          UpdateAccountIdCall(index, nextId)

handleSave ==
    /\ pc = "ready"
    /\ \E env \in {Run(idCounter + 1)} :
       \E normalized \in {normalizeState(state, env)} :
           /\ normalized # Throw
           /\ storage' = [storage EXCEPT !.current = SavedPayload(normalized, env)]
           /\ state' = normalized
           /\ savedAt' = NowISO(env)
           /\ dirty' = FALSE
           /\ idCounter' = IF DrewIds(normalized, env.ids)
                           THEN idCounter + 1 ELSE idCounter
    /\ UNCHANGED <<logDraft, editingLogId, remote, pc, input, output, loading>>
    /\ AutosaveEffect

Next ==
    \/ Mount
    \/ RemoteLoad
    \/ SetDraftCount
    \/ handleSaveLog
    \/ handleEditLog
    \/ handleDeleteLog
    \/ updateAccountId
    \/ handleSave

Spec == Init /\ [][Next]_vars

(***************************************************************************)
(* The Dashboard component, experiments tab: the component mounted on a    *)
(* stored experiment, and the handlers of the tab                          *)
(***************************************************************************)
\* Experiments found in storage: one without variants, a legacy one with a
\* message label, one with a variant and an explicit metric and sample size.
BareExperiment == Obj([id |-> S("e1")])
LabelledExperiment == Obj([id |-> S("e1"), messageLabel |-> S("Hook")])
FullExperiment ==
    Obj([id |-> S("e1"), funnel_stage_targeted |-> S("CONNECTION"),
         primary_metric |-> S("BOOKED_KPI"),
         required_sample_size_seen |-> N(5),
         variants |-> Arr(<<Obj([id |-> S("v1"), name |-> S("A")])>>)])

StoredExperiments == {BareExperiment, LabelledExperiment, FullExperiment}

ExperimentStores ==
    {[current |-> Obj([schemaVersion |-> N(SCHEMA_VERSION),
                       savedAt |-> S("T0"),
                       data |-> Obj([experiments |-> Arr(<<e>>)])]),
      legacy |-> NoLegacy] : e \in StoredExperiments}

\* The updates the fields of an experiment card and of a variant pass.
ExperimentUpdates ==
    { Obj([funnel_stage_targeted |-> S("OFFER")]),
      Obj([primary_metric |-> S("CR")]),
      Obj([required_sample_size_seen |-> clampNonNegInt(S("7.5"))]) }

VariantUpdates == {Obj([name |-> S("v")])}

InitTab ==
    /\ pc = "mount"
    /\ state = Null /\ logDraft = Null /\ editingLogId = Null
    /\ dirty = FALSE /\ idCounter = 0 /\ savedAt = Null /\ remote = "none"
    /\ autosaveTimer = NoTimer
    /\ loading = FALSE
    /\ storage \in ExperimentStores
    /\ input = [supabase |-> FALSE]
    /\ output = NoOutput

\* updateState(updater) with an updater that maps the experiment `id`.
MapExperiment(id, Change(_)) ==
    /\ pc = "ready"
    /\ LET prev == Elems(Get(state, "experiments"))
       IN  state' = Put(state, "experiments",
                        Arr([i \in 1..Len(prev) |->
                               IF Get(prev[i], "id") # id THEN prev[i]
                               ELSE Change(prev[i])]))
    /\ dirty' = TRUE
    /\ UNCHANGED <<logDraft, editingLogId, idCounter, savedAt, remote,
                   storage, pc, input, output, loading>>
    /\ AutosaveEffect

UpdateExperimentCall(id, updates) ==
    LET Change(experiment) ==
            LET next == PutAll(experiment, updates[2])
                stage == Get(updates, "funnel_stage_targeted")
            IN  IF Truthy(stage)
                THEN PutAll(next,
                         [primary_metric |-> primaryMetricForStage(stage),
                          required_sample_size_seen |->
                              requiredSeenForStage(stage)])
                ELSE next
    IN  MapExperiment(id, Change)

updateExperiment ==
    /\ pc = "ready"
    /\ \E i \in 1..Len(Elems(Get(state, "experiments"))),
          updates \in ExperimentUpdates :
          UpdateExperimentCall(Get(Elems(Get(state, "experiments"))[i], "id"),
                               updates)

updateVariant ==
    /\ pc = "ready"
    /\ \E i \in 1..Len(Elems(Get(state, "experiments"))),
          updates \in VariantUpdates :
          LET target == Elems(Get(state, "experiments"))[i]
          IN  \E j \in 1..Len(Elems(Get(target, "variants"))) :
                LET variantId == Get(Elems(Get(target, "variants"))[j], "id")
                    Change(experiment) ==
                        LET vs == Elems(Get(experiment, "variants"))
                        IN  Put(experiment, "variants",
                                Arr([k \in 1..Len(vs) |->
                                       IF Get(vs[k], "id") = variantId
                                       THEN PutAll(vs[k], updates[2])
                                       ELSE vs[k]]))
                IN  MapExperiment(Get(target, "id"), Change)

addVariant ==
    /\ pc = "ready"
    /\ idCounter < MaxIds
    /\ \E i \in 1..Len(Elems(Get(state, "experiments"))) :
          LET env == Run(idCounter + 1)
              Change(experiment) ==
                  LET vs == Elems(Get(experiment, "variants"))
                  IN  Put(experiment, "variants",
                          Arr(Append(vs,
                              Obj([id |-> makeId(env, <<>>),
                                   name |-> Str(<<"Variant", " ",
                                                  ToString(Len(vs) + 1)>>),
                                   message |-> EmptyStr,
                                   step_type |-> EmptyStr]))))
              prev == Elems(Get(state, "experiments"))
          IN  /\ state' = Put(state, "experiments",
                        Arr([k \in 1..Len(prev) |->
                               IF Get(prev[k], "id") # Get(prev[i], "id")
                               THEN prev[k] ELSE Change(prev[k])]))
              /\ dirty' = TRUE
              /\ idCounter' = idCounter + 1
    /\ UNCHANGED <<logDraft, editingLogId, savedAt, remote, storage, pc,
                   input, output, loading>>
    /\ AutosaveEffect

\* removeVariant that also removes the last variant
RemoveVariantCall_removesLast(experimentId, variantId) ==
    LET Change(experiment) ==
            Put(experiment, "variants",
                Arr(SelectSeq(Elems(Get(experiment, "variants")),
                        LAMBDA v : Get(v, "id") # variantId)))
    IN  MapExperiment(experimentId, Change)

RemoveVariantCall(experimentId, variantId) ==
    LET Change(experiment) ==
            LET variants == SelectSeq(Elems(Get(experiment, "variants")),
                                LAMBDA v : Get(v, "id") # variantId)
            IN  Put(experiment, "variants",
                    IF Len(variants) > 0 THEN Arr(variants)
                    ELSE Get(experiment, "variants"))
    IN  MapExperiment(experimentId, Change)

removeVariant ==
    /\ pc = "ready"
    /\ \E i \in 1..Len(Elems(Get(state, "experiments"))) :
          LET target == Elems(Get(state, "experiments"))[i]
          IN  \E j \in 1..Len(Elems(Get(target, "variants"))) :
                RemoveVariantCall(Get(target, "id"),
                                  Get(Elems(Get(target, "variants"))[j], "id"))

NextTab ==
    \/ Mount
    \/ updateExperiment
    \/ updateVariant
    \/ addVariant
    \/ removeVariant
    \/ handleSave

SpecTab == InitTab /\ [][NextTab]_vars

(***************************************************************************)
(* The Dashboard component, experiments tab: the component mounted on      *)
(* experiments stored with or without a stage, a primary metric and a      *)
(* required sample size, and the stage, metric and sample size fields      *)
(***************************************************************************)
EXPERIMENT_STAGES == {"CONNECTION", "PERMISSION", "OFFER", "BOOKING"}

StagedExperiments ==
    { Compact([id |-> S("e1"),
               variants |-> Arr(<<Obj([id |-> S("v1"), name |-> S("A")])>>),
               funnel_stage_targeted |-> stage,
               primary_metric |-> metric,
               required_sample_size_seen |-> required]) :
        stage \in {Undef} \cup {S(st) : st \in EXPERIMENT_STAGES},
        metric \in {Undef, S("CR")},
        required \in {Undef, N(0), N(5)} }

StagedStores ==
    {[current |-> Obj([schemaVersion |-> N(SCHEMA_VERSION),
                       savedAt |-> S("T0"),
                       data |-> Obj([experiments |-> Arr(<<e>>)])]),
      legacy |-> NoLegacy] : e \in StagedExperiments}

\* What the stage and metric selects and the required-seen field pass.
StagedUpdates ==
    { Obj([funnel_stage_targeted |-> S(st)]) : st \in EXPERIMENT_STAGES }
    \cup { Obj([primary_metric |-> S("BOOKED_KPI")]),
           Obj([required_sample_size_seen |-> clampNonNegInt(S("7.5"))]) }

InitStaged ==
    /\ pc = "mount"
    /\ state = Null /\ logDraft = Null /\ editingLogId = Null
    /\ dirty = FALSE /\ idCounter = 0 /\ savedAt = Null /\ remote = "none"
    /\ autosaveTimer = NoTimer
    /\ loading = FALSE
    /\ storage \in StagedStores
    /\ input = [supabase |-> FALSE]
    /\ output = NoOutput

\* onChange of the stage select, the metric select and the required-seen
\* field of an experiment card
ChangeExperimentField ==
    /\ pc = "ready"
    /\ \E i \in 1..Len(Elems(Get(state, "experiments"))),
          updates \in StagedUpdates :
          UpdateExperimentCall(Get(Elems(Get(state, "experiments"))[i], "id"),
                               updates)

NextStaged ==
    \/ Mount
    \/ ChangeExperimentField

SpecStaged == InitStaged /\ [][NextStaged]_vars

(***************************************************************************)
(* The Dashboard component, settings tab: the component mounted on stored  *)
(* accounts with logs and prospects, and the Account ID field              *)
(***************************************************************************)
StoredLog(id, accountId) ==
    Obj([id |-> S(id), date |-> D(1), account_id |-> accountId])

StoredProspect(id, accountId) ==
    Obj([id |-> S(id), name |-> S("P"), account_id |-> accountId])

\* Account lists found in storage: two accounts with ids of their own; two
\* accounts carrying the same id; an account that carries the id the next
\* one gets by default.
StoredAccountLists ==
    { <<Obj([id |-> AccountIdFor(0)]), Obj([id |-> S("b")])>>,
      <<Obj([id |-> S("b")]), Obj([id |-> S("b")])>>,
      <<Obj([id |-> AccountIdFor(1)]), Obj([name |-> S("Second")])>> }

AccountStores ==
    {[current |->
          Obj([schemaVersion |-> N(SCHEMA_VERSION), savedAt |-> S("T0"),
               data |-> Obj([config |-> Obj([accounts |-> Arr(as)]),
                             logs |-> Arr(<<StoredLog("l1", AccountIdFor(0)),
                                            StoredLog("l2", S("b"))>>),
                             prospects |->
                                 Arr(<<StoredProspect("p1", AccountIdFor(0)),
                                       StoredProspect("p2", S("b"))>>)])]),
      legacy |-> NoLegacy] : as \in StoredAccountLists}

\* What the user leaves in the Account ID field: a fresh id, the id of
\* another account, nothing.
AnyAccountIds == {S("a"), S("b"), EmptyStr}

InitAccounts ==
    /\ pc = "mount"
    /\ state = Null /\ logDraft = Null /\ editingLogId = Null
    /\ dirty = FALSE /\ idCounter = 0 /\ savedAt = Null /\ remote = "none"
    /\ autosaveTimer = NoTimer
    /\ loading = FALSE
    /\ storage \in AccountStores
    /\ input = [supabase |-> FALSE]
    /\ output = NoOutput

\* onChange of the Account ID field, for any account card and any text
ChangeAccountId ==
    /\ pc = "ready"
    /\ \E index \in 1..Len(Elems(Get(Get(state, "config"), "accounts"))),
          nextId \in AnyAccountIds :
          UpdateAccountIdCall(index, nextId)

NextAccounts ==
    \/ Mount
    \/ ChangeAccountId
    \/ handleSave

SpecAccounts == InitAccounts /\ [][NextAccounts]_vars

(***************************************************************************)
(* context/DMLabContext: the reducer of the provider and the account and   *)
(* log actions the Settings and Daily Log pages call                       *)
(***************************************************************************)
MaxCtxLogs == 2

\* uuidv4(), the k-th id drawn
Uuid(k) == Str(<<"uuid_", ToString(k)>>)

CtxLog(id, accountId) == Obj([id |-> S(id), accountId |-> accountId])

\* Logs of the loaded state: two of the first account, one of the second.
CtxLogs ==
    { CtxLog("l1", AccountIdFor(0)), CtxLog("l2", AccountIdFor(1)),
      CtxLog("l3", AccountIdFor(0)) }

CtxAccounts ==
    << Obj([id |-> AccountIdFor(0), name |-> Str(<<"Account", " ", "1">>)]),
       Obj([id |-> AccountIdFor(1), name |-> Str(<<"Account", " ", "2">>)]) >>

\* CONSTANTS.ACCOUNTS
ACCOUNTS == Arr(CtxAccounts)

\* typeof v === 'object'
IsObjectType(v) == Tag(v) \in {"obj", "arr", "null"}

reducer(st, action) ==
    LET settings == Get(st, "settings")
        accounts == Elems(Get(settings, "accounts"))
        dailyLogs == Elems(Get(st, "dailyLogs"))
    IN  CASE action.type = "SET_STATE" ->
                 LET given == Get(Get(action.payload, "settings"), "accounts")
                 IN  Put(action.payload, "settings",
                         Put(Get(action.payload, "settings"), "accounts",
                             IF /\ IsArray(given)
                                /\ Len(Elems(given)) > 0
                                /\ IsObjectType(Elems(given)[1])
                             THEN given ELSE ACCOUNTS))
          [] action.type = "DELETE_EXPERIMENT" ->
                 PutAll(st,
                     [experiments |->
                          Arr(SelectSeq(Elems(Get(st, "experiments")),
                                  LAMBDA e : Get(e, "id") # action.payload)),
                      dailyLogs |->
                          Arr([i \in 1..Len(dailyLogs) |->
                                 IF Get(dailyLogs[i], "experimentId")
                                        = action.payload
                                 THEN PutAll(dailyLogs[i],
                                          [experimentId |-> EmptyStr,
                                           variantId |-> Undef])
                                 ELSE dailyLogs[i]])])
          [] action.type = "DELETE_LOG" ->
                 Put(st, "dailyLogs",
                     Arr(SelectSeq(dailyLogs,
                                   LAMBDA l : Get(l, "id") # action.payload)))
          [] action.type = "ADD_ACCOUNT" ->
                 Put(st, "settings",
                     Put(settings, "accounts",
                         Arr(Append(accounts, action.payload))))
          [] action.type = "DELETE_ACCOUNT" ->
                 Put(st, "settings",
                     Put(settings, "accounts",
                         Arr(SelectSeq(accounts,
                                       LAMBDA a : Get(a, "id") # action.payload))))
          [] OTHER -> st

\* JSON.parse(JSON.stringify(v)): properties that are undefined are left
\* out, undefined elements and the numbers JSON cannot write become null.
RECURSIVE Stringify(_)
Stringify(v) ==
    CASE Tag(v) = "obj" ->
             Obj([k \in {x \in DOMAIN v[2] : v[2][x] # Undef} |->
                     Stringify(v[2][k])])
      [] Tag(v) = "arr" ->
             Arr([i \in 1..Len(v[2]) |-> Stringify(v[2][i])])
      [] Tag(v) \in {"undef", "nan", "inf", "ninf"} -> Null
      [] OTHER -> v

\* Where the provider is: load() before its first await ("load"), load()
\* awaiting Supabase or the local backend, and after load() has returned.
ProviderPcs == {"supabase", "backend", "context"}

\* The "Sync to LocalStorage" effect that sets the item while loading
SyncEffect_whileLoading ==
    storage' = IF state' # state \/ loading' # loading
               THEN [item |-> Stringify(state')] ELSE storage

\* The "Sync to LocalStorage" effect, run after a render in which state or
\* loading has changed.
SyncEffect ==
    storage' = IF (state' # state \/ loading' # loading) /\ ~loading'
               THEN [item |-> Stringify(state')] ELSE storage

\* The provider after the stored data was loaded: dispatch SET_STATE.
InitContext ==
    /\ pc = "context"
    /\ state \in { Obj([settings |-> Obj([theme |-> S("dark"),
                                          accounts |-> Arr(CtxAccounts)]),
                        dailyLogs |-> Arr(logs)]) :
                     logs \in { s \in SeqsUpTo(CtxLogs, MaxCtxLogs) :
                                  \A i, j \in 1..Len(s) : i # j => s[i] # s[j] } }
    /\ logDraft = Null /\ editingLogId = Null /\ dirty = FALSE
    /\ autosaveTimer = NoTimer
    /\ loading = FALSE
    /\ idCounter = 0 /\ savedAt = Null /\ remote = "none"
    /\ storage = [item |-> Stringify(state)]
    /\ input = Null
    /\ output = NoOutput

\* dispatch(action) from an action of the context: the call returns nothing.
Dispatch(action) ==
    /\ pc \in ProviderPcs
    /\ state' = reducer(state, action)
    /\ output' = Returned(Undef)
    /\ UNCHANGED <<logDraft, editingLogId, dirty, savedAt, remote,
                   autosaveTimer, loading, pc, input>>
    /\ SyncEffect

\* actions.deleteAccount(id)
DeleteAccountCall(id) ==
    /\ Dispatch([type |-> "DELETE_ACCOUNT", payload |-> id])
    /\ UNCHANGED idCounter

\* Settings: the delete button of an account card, after confirm()
ClickDeleteAccount ==
    /\ pc \in ProviderPcs
    /\ \E i \in 1..Len(Elems(Get(Get(state, "settings"), "accounts"))),
          confirmed \in BOOLEAN :
          IF confirmed
          THEN DeleteAccountCall(
                   Get(Elems(Get(Get(state, "settings"), "accounts"))[i], "id"))
          ELSE UNCHANGED vars

\* Settings: handleAddAccount with a name typed, actions.addAccount(name)
handleAddAccount ==
    /\ idCounter < MaxIds
    /\ idCounter' = idCounter + 1
    /\ Dispatch([type |-> "ADD_ACCOUNT",
                 payload |-> Obj([id |-> Uuid(idCounter + 1),
                                  name |-> S("New")])])

\* Daily Log: the delete button of a log row, actions.deleteLog(id)
deleteLog ==
    /\ \E i \in 1..Len(Elems(Get(state, "dailyLogs"))) :
          Dispatch([type |-> "DELETE_LOG",
                    payload |-> Get(Elems(Get(state, "dailyLogs"))[i], "id")])
    /\ UNCHANGED idCounter

NextContext ==
    \/ ClickDeleteAccount
    \/ handleAddAccount
    \/ deleteLog

SpecContext == InitContext /\ [][NextContext]_vars

(***************************************************************************)
(* Evaluation of loadState on the items local storage may hold             *)
(***************************************************************************)
\* A stored log that tells by its id which item it came from.
KeyedLog(key) == Obj([id |-> S(key), date |-> D(1), sent |-> N(5)])

\* What the current key holds: nothing; a text that is not JSON; a payload
\* of the current and of an older schema version; a state without version
\* that names its logs `logs`, `dailyLogs`, or holds prospects only.
CurrentItems ==
    { Absent, Null,
      Obj([schemaVersion |-> N(SCHEMA_VERSION), savedAt |-> S("T0"),
           data |-> Obj([logs |-> Arr(<<KeyedLog("cur")>>)])]),
      Obj([schemaVersion |-> N(SCHEMA_VERSION - 1), savedAt |-> S("T0"),
           data |-> Obj([logs |-> Arr(<<KeyedLog("cur")>>)])]),
      Obj([logs |-> Arr(<<KeyedLog("cur")>>)]),
      Obj([dailyLogs |-> Arr(<<KeyedLog("cur")>>)]),
      Obj([prospects |-> Arr(<<Obj([id |-> S("cur"), name |-> S("P")])>>)]) }

\* What a legacy key holds: nothing, a text that is not JSON, a state.
LegacyItems(key) ==
    { Absent, Null, Obj([logs |-> Arr(<<KeyedLog(key)>>)]),
      Obj([dailyLogs |-> Arr(<<KeyedLog(key)>>)]) }

LoadStores ==
    { [current |-> c, legacy |-> <<k4, k3, k2>>] :
        c \in CurrentItems, k4 \in LegacyItems("k4"),
        k3 \in LegacyItems("k3"), k2 \in LegacyItems("k2") }

InitLoad ==
    /\ AppIdle
    /\ pc = "loadState"
    /\ input \in [store : LoadStores]
    /\ output = NoOutput

ApplyLoadState ==
    /\ pc = "loadState"
    /\ pc' = "loadState.done"
    /\ output' = Returned(loadState(input.store, FirstRun))
    /\ UNCHANGED <<input, appVars>>

NextLoad == ApplyLoadState

SpecLoad == InitLoad /\ [][NextLoad]_vars

(***************************************************************************)
(* CSV export: csvEscape, and the reading of one field by RFC 4180.  In    *)
(* the strings of this section the atoms ",", "\"", "\n" and "\r" are the  *)
(* comma, the double quote, the line feed and the carriage return, and     *)
(* every other atom is a run of other characters.                          *)
(***************************************************************************)
DQUOTE == "\""

\* str.replace(/"/g, '""')
RECURSIVE DoubleQuotes(_)
DoubleQuotes(chars) ==
    IF chars = <<>> THEN <<>>
    ELSE (IF Head(chars) = DQUOTE THEN <<DQUOTE, DQUOTE>> ELSE <<Head(chars)>>)
         \o DoubleQuotes(Tail(chars))

Includes(chars, c) == \E i \in 1..Len(chars) : chars[i] = c

csvEscape(value) ==
    LET str == IF IsNullish(value) THEN <<>> ELSE StringOf(value)[2]
    IN  IF Includes(str, ",") \/ Includes(str, DQUOTE) \/ Includes(str, "\n")
        THEN Str(<<DQUOTE>> \o DoubleQuotes(str) \o <<DQUOTE>>)
        ELSE Str(str)

MaxCsvLen == 3

CsvChars == {"a", ",", DQUOTE, "\n", "\r"}

\* hello, "world"
CsvExample == Str(<<"hello", ",", " ", DQUOTE, "world", DQUOTE>>)

CsvValues ==
    {Str(s) : s \in SeqsUpTo(CsvChars, MaxCsvLen)} \cup {CsvExample}

InitCsv ==
    /\ AppIdle
    /\ pc = "csvEscape"
    /\ input \in [value : CsvValues]
    /\ output = NoOutput

ApplyCsvEscape ==
    /\ pc = "csvEscape"
    /\ pc' = "csvEscape.done"
    /\ output' = Returned(csvEscape(input.value))
    /\ UNCHANGED <<input, appVars>>

NextCsv == ApplyCsvEscape

SpecCsv == InitCsv /\ [][NextCsv]_vars

(***************************************************************************)
(* The Dashboard component with and without a Supabase client, on empty    *)
(* and on filled storage: the initial remote load and the edits made       *)
(* before it answers                                                       *)
(***************************************************************************)
RemoteStores ==
    {[current |-> Absent, legacy |-> NoLegacy],
     [current |-> Obj([schemaVersion |-> N(SCHEMA_VERSION),
                       savedAt |-> S("T0"), data |-> DataOf(FractionLog)]),
      legacy |-> NoLegacy],
     [current |-> Absent, legacy |-> <<Absent, DataOf(AliasLog), Absent>>]}

InitRemote ==
    /\ pc = "mount"
    /\ state = Null /\ logDraft = Null /\ editingLogId = Null
    /\ dirty = FALSE /\ idCounter = 0 /\ savedAt = Null /\ remote = "none"
    /\ autosaveTimer = NoTimer
    /\ loading = FALSE
    /\ storage \in RemoteStores
    /\ input \in [supabase : BOOLEAN]
    /\ output = NoOutput

NextRemote ==
    \/ Mount
    \/ RemoteLoad
    \/ SetDraftCount
    \/ handleSaveLog
    \/ handleDeleteLog
    \/ updateAccountId

SpecRemote == InitRemote /\ [][NextRemote]_vars

(***************************************************************************)
(* The Dashboard component with the autosave switch: the edits, the        *)
(* timeout of the autosave effect and the Save button                      *)
(***************************************************************************)
\* Nothing stored (autosave off by default) and a saved state with the
\* switch on.
AutosaveStores ==
    {[current |-> Absent, legacy |-> NoLegacy],
     [current |-> Obj([schemaVersion |-> N(SCHEMA_VERSION),
                       savedAt |-> S("T0"),
                       data |-> Obj([config |-> Obj([autosave |-> B(TRUE)]),
                                     logs |-> Arr(<<FractionLog>>)])]),
      legacy |-> NoLegacy]}

InitAutosave ==
    /\ pc = "mount"
    /\ state = Null /\ logDraft = Null /\ editingLogId = Null
    /\ dirty = FALSE /\ idCounter = 0 /\ savedAt = Null /\ remote = "none"
    /\ autosaveTimer = NoTimer
    /\ loading = FALSE
    /\ storage \in AutosaveStores
    /\ input = [supabase |-> FALSE]
    /\ output = NoOutput

\* Settings: the "Autosave to local storage" switch, onChange(!checked)
toggleAutosave ==
    /\ pc = "ready"
    /\ state' = Put(state, "config",
                    Put(Get(state, "config"), "autosave",
                        B(~AutosaveOn(state))))
    /\ dirty' = TRUE
    /\ UNCHANGED <<logDraft, editingLogId, idCounter, savedAt, remote,
                   storage, pc, input, output, loading>>
    /\ AutosaveEffect

\* The callback of setTimeout(..., 400): saveState(state) with the state
\* of the render that scheduled it, setSavedAt, setDirty(false); the
\* effect runs again when dirty has changed.
AutosaveFire ==
    /\ pc = "ready"
    /\ \E i \in 1..Len(autosaveTimer.pending) :
       \E env \in {Run(idCounter + 1)} :
          LET fired == [pending |-> RemoveAt(autosaveTimer.pending, i),
                        current |-> IF autosaveTimer.current = i THEN 0
                                    ELSE IF autosaveTimer.current > i
                                         THEN autosaveTimer.current - 1
                                         ELSE autosaveTimer.current,
                        cleanup |-> autosaveTimer.cleanup]
          IN  /\ storage' = [storage EXCEPT !.current =
                                SavedPayload(autosaveTimer.pending[i], env)]
              /\ savedAt' = NowISO(env)
              /\ dirty' = FALSE
              /\ autosaveTimer' = IF dirty THEN AutosaveRun(fired, state, FALSE)
                                  ELSE fired
    /\ UNCHANGED <<state, logDraft, editingLogId, idCounter, remote, pc,
                   input, output, loading>>

NextAutosave ==
    \/ Mount
    \/ toggleAutosave
    \/ SetDraftCount
    \/ handleSaveLog
    \/ handleDeleteLog
    \/ handleSave
    \/ AutosaveFire

SpecAutosave == InitAutosave /\ [][NextAutosave]_vars

\* The timeout fires 400 ms after it was set unless it is cleared first.
SpecAutosaveLive == SpecAutosave /\ WF_vars(AutosaveFire)

(***************************************************************************)
(* migrateData of utils/migrations.ts                                      *)
(***************************************************************************)
\* `Account ${index + 1}` for the 0-based index
AccountNameFor(index) == Str(<<"Account", " ", ToString(index + 1)>>)

\* coerceAccounts: the id and the name of each account (weeklyGoals and
\* color are not carried).  CONSTANTS.DEFAULT_ACCOUNTS is the list the
\* specification gives: account_n named "Account n".
coerceAccounts(rawAccounts) ==
    IF IsArray(rawAccounts) /\ Len(Elems(rawAccounts)) > 0
    THEN LET raw == Elems(rawAccounts)
         IN  IF Tag(raw[1]) = "str"
             THEN [i \in 1..Len(raw) |->
                      Obj([id |-> AccountIdFor(i - 1), name |-> raw[i]])]
             ELSE [i \in 1..Len(raw) |->
                      Obj([id |-> Or(Get(raw[i], "id"), AccountIdFor(i - 1)),
                           name |-> Or(Get(raw[i], "name"),
                                       AccountNameFor(i - 1))])]
    ELSE CtxAccounts

deriveStageFromExperimentType(experimentType) ==
    IF experimentType \in {S("OFFER_MESSAGE"), S("OLD_LEADS_REOFFER")}
    THEN S("OFFER") ELSE S("PERMISSION")

\* One element of migratedExperiments in migrateData.
MigrateExperiment(exp) ==
    LET funnelStageTargeted ==
            Or3(Get(exp, "funnelStageTargeted"), Get(exp, "stage"),
                deriveStageFromExperimentType(Get(exp, "experimentType")))
    IN  PutAll(exp,
            [funnelStageTargeted |-> funnelStageTargeted,
             primaryMetric |-> Or(Get(exp, "primaryMetric"),
                                  primaryMetricForStage(funnelStageTargeted)),
             requiredSampleSizeSeen |->
                 Coalesce(Get(exp, "requiredSampleSizeSeen"),
                          requiredSeenForStage(funnelStageTargeted))])

\* (v || []).map(f) for a list found in stored data
MapOrEmpty(v) == IF Truthy(v) THEN Elems(v) ELSE <<>>

\* migrateData: the records and the settings of the migrated state
\* (schemaVersion, offers, goals and kpiTargets are not carried).
migrateData(oldData) ==
    LET accounts == coerceAccounts(Get(Get(oldData, "settings"), "accounts"))
        defaultAccountName ==
            IF accounts = <<>> THEN AccountNameFor(0)
            ELSE Or(Get(accounts[1], "name"), AccountNameFor(0))
        logs == MapOrEmpty(Get(oldData, "dailyLogs"))
        leads == MapOrEmpty(Get(oldData, "leads"))
        exps == MapOrEmpty(Get(oldData, "experiments"))
    IN  Obj([experiments |->
                 Arr([i \in 1..Len(exps) |-> MigrateExperiment(exps[i])]),
             dailyLogs |->
                 Arr([i \in 1..Len(logs) |->
                        normalizeDailyLog(logs[i], defaultAccountName)]),
             leads |->
                 Arr([i \in 1..Len(leads) |->
                        MigrateLead(leads[i], defaultAccountName)]),
             settings |->
                 Obj([theme |-> Or(Get(Get(oldData, "settings"), "theme"),
                                   S("dark")),
                      accounts |-> Arr(accounts),
                      excludeOldLeadsFromKpi |->
                          Coalesce(Get(Get(oldData, "settings"),
                                       "excludeOldLeadsFromKpi"),
                                   B(TRUE))])])

(***************************************************************************)
(* DMLabProvider: the startup load (local storage, Supabase, the local     *)
(* backend) and the "Sync to LocalStorage" effect                          *)
(***************************************************************************)
\* initialState of the provider
initialState ==
    Obj([experiments |-> Arr(<<>>), dailyLogs |-> Arr(<<>>),
         leads |-> Arr(<<>>),
         settings |-> Obj([theme |-> S("dark"), accounts |-> ACCOUNTS])])

\* A text that JSON.parse rejects
NotJson == <<"notjson">>

\* Data as the application stored it, with one log of the named id.
SavedData(id) ==
    Obj([experiments |-> Arr(<<>>),
         dailyLogs |-> Arr(<<CtxLog(id, AccountIdFor(0))>>),
         leads |-> Arr(<<>>),
         settings |-> Obj([theme |-> S("light"),
                           accounts |-> Arr(CtxAccounts)])])

\* Data of the first schema: the accounts are names, the log and the lead
\* carry no account.
LegacyData ==
    Obj([dailyLogs |-> Arr(<<Obj([id |-> S("old"), sent |-> N(5)])>>),
         leads |-> Arr(<<Obj([id |-> S("lead"), stage |-> S("A")])>>),
         settings |-> Obj([accounts |-> Arr(<<AccountNameFor(0),
                                              AccountNameFor(1)>>)])])

\* The item under CONSTANTS.STORAGE_KEY: none, not JSON, saved data, or
\* data of the first schema.
ProviderStores ==
    {[item |-> Absent], [item |-> NotJson], [item |-> SavedData("local")],
     [item |-> LegacyData]}

\* What the Supabase query answers: the request fails, no row, a row
\* without data, a row with data.
SupabaseAnswers ==
    {Throw,
     Obj([data |-> Null, error |-> S("no rows")]),
     Obj([data |-> Obj([data |-> Null]), error |-> Null]),
     Obj([data |-> Obj([data |-> SavedData("cloud")]), error |-> Null])}

\* What fetch('http://localhost:3001/api/data') answers: the request
\* fails, a status that is not ok, a body without records, a body with
\* records.
BackendAnswers ==
    {Throw,
     Obj([ok |-> B(FALSE)]),
     Obj([ok |-> B(TRUE), json |-> Obj([offers |-> Arr(<<>>)])]),
     Obj([ok |-> B(TRUE), json |-> SavedData("backend")])}

InitProvider ==
    /\ pc = "load"
    /\ state = initialState
    /\ loading = TRUE
    /\ storage \in ProviderStores
    /\ input \in [supabase : BOOLEAN]
    /\ logDraft = Null /\ editingLogId = Null /\ dirty = FALSE
    /\ autosaveTimer = NoTimer
    /\ idCounter = 0 /\ savedAt = Null /\ remote = "none"
    /\ output = NoOutput

\* dispatch({ type: 'SET_STATE', payload: { ...initialState, ...migrated } })
SetStateFrom(data) ==
    reducer(state, [type |-> "SET_STATE",
                    payload |-> PutAll(initialState, migrateData(data)[2])])

\* load() up to its first await: the item of local storage.
LoadLocal ==
    /\ pc = "load"
    /\ state' = IF storage.item \in {Absent, NotJson} THEN state
                ELSE SetStateFrom(storage.item)
    /\ pc' = IF input.supabase THEN "supabase" ELSE "backend"
    /\ UNCHANGED <<logDraft, editingLogId, dirty, idCounter, savedAt, remote,
                   autosaveTimer, loading, input, output>>
    /\ SyncEffect

\* load() after the Supabase query has settled.
SupabaseAnswered(res) ==
    /\ pc = "supabase"
    /\ IF res # Throw /\ Truthy(Get(Get(res, "data"), "data"))
       THEN /\ state' = SetStateFrom(Get(Get(res, "data"), "data"))
            /\ loading' = FALSE
            /\ pc' = "context"
       ELSE /\ pc' = "backend"
            /\ UNCHANGED <<state, loading>>
    /\ UNCHANGED <<logDraft, editingLogId, dirty, idCounter, savedAt, remote,
                   autosaveTimer, input, output>>
    /\ SyncEffect

LoadSupabase ==
    /\ pc = "supabase"
    /\ \E res \in SupabaseAnswers : SupabaseAnswered(res)

\* load() after the request to the local backend has settled.
BackendAnswered(res) ==
    /\ pc = "backend"
    /\ state' = IF /\ res # Throw
                   /\ Truthy(Get(res, "ok"))
                   /\ Truthy(Get(res, "json"))
                   /\ Truthy(Or(Get(Get(res, "json"), "experiments"),
                                Get(Get(res, "json"), "dailyLogs")))
                THEN SetStateFrom(Get(res, "json"))
                ELSE state
    /\ loading' = FALSE
    /\ pc' = "context"
    /\ UNCHANGED <<logDraft, editingLogId, dirty, idCounter, savedAt, remote,
                   autosaveTimer, input, output>>
    /\ SyncEffect

LoadBackend ==
    /\ pc = "backend"
    /\ \E res \in BackendAnswers : BackendAnswered(res)

NextProvider ==
    \/ LoadLocal
    \/ LoadSupabase
    \/ LoadBackend
    \/ ClickDeleteAccount
    \/ handleAddAccount
    \/ deleteLog

SpecProvider == InitProvider /\ [][NextProvider]_vars

\* A request that was sent settles: it is answered or it fails.
SpecProviderLive ==
    SpecProvider /\ WF_vars(LoadLocal) /\ WF_vars(LoadSupabase)
                 /\ WF_vars(LoadBackend)

(***************************************************************************)
(* migrateData applied to stored data                                      *)
(***************************************************************************)
MaxMigrateLogs == 2

\* The accounts of stored data: none, the names of the first schema,
\* account objects, account objects without id.
StoredAccounts ==
    {Undef,
     Arr(<<AccountNameFor(0), AccountNameFor(1)>>),
     Arr(CtxAccounts),
     Arr(<<Obj([name |-> S("Main")]), Obj([name |-> S("Second")])>>)}

\* The account a stored record names: none, the id of the first or of the
\* second account.
StoredAccountRefs == {Undef, AccountIdFor(0), AccountIdFor(1)}

StoredDailyLogs ==
    {Compact([id |-> S("l"), sent |-> N(5), accountId |-> a]) :
        a \in StoredAccountRefs}

StoredLeads ==
    {Compact([id |-> S("p"), stage |-> S("B"), accountId |-> a]) :
        a \in StoredAccountRefs}

InitMigrate ==
    /\ AppIdle
    /\ pc = "migrateData"
    /\ input \in [oldData :
           {Compact([settings |-> IF accounts = Undef THEN Undef
                                  ELSE Obj([accounts |-> accounts]),
                     dailyLogs |-> Arr(logs),
                     leads |-> Arr(leads)]) :
               accounts \in StoredAccounts,
               logs \in SeqsUpTo(StoredDailyLogs, MaxMigrateLogs),
               leads \in SeqsUpTo(StoredLeads, 1)}]
    /\ output = NoOutput

ApplyMigrateData ==
    /\ pc = "migrateData"
    /\ output' = Returned(migrateData(input.oldData))
    /\ pc' = "migrateData.done"
    /\ UNCHANGED <<input, appVars>>

NextMigrate == ApplyMigrateData

SpecMigrate == InitMigrate /\ [][NextMigrate]_vars

(***************************************************************************)
(* The provider with experiments and the logs that reference them          *)
(***************************************************************************)
CtxExperimentIds == {S("e1"), S("e2")}

\* What a log says of its experiment: none, or an experiment with or
\* without a variant.
CtxLogRefs ==
    {[experimentId |-> e, variantId |-> v] :
        e \in CtxExperimentIds \cup {EmptyStr}, v \in {Undef, S("v1")}}

\* The i-th log of the state: its id, its reference and its counts.
CtxExperimentLog(i, ref) ==
    Compact([id |-> Str(<<"l", ToString(i)>>),
             experimentId |-> ref.experimentId,
             variantId |-> ref.variantId,
             accountId |-> AccountIdFor(0),
             permissionMessagesSent |-> N(10 + i),
             bookedCalls |-> N(i)])

CtxExperimentLists ==
    {<<>>, <<Obj([id |-> S("e1"), name |-> S("A")])>>,
     <<Obj([id |-> S("e1"), name |-> S("A")]),
       Obj([id |-> S("e2"), name |-> S("B")])>>}

InitExperiments ==
    /\ pc = "context"
    /\ state \in
         { PutAll(initialState,
                  [experiments |-> Arr(exps),
                   dailyLogs |-> Arr([i \in 1..Len(refs) |->
                                        CtxExperimentLog(i, refs[i])])]) :
             exps \in CtxExperimentLists,
             refs \in SeqsUpTo(CtxLogRefs, MaxCtxLogs) }
    /\ logDraft = Null /\ editingLogId = Null /\ dirty = FALSE
    /\ autosaveTimer = NoTimer
    /\ loading = FALSE
    /\ idCounter = 0 /\ savedAt = Null /\ remote = "none"
    /\ storage = [item |-> Stringify(state)]
    /\ input = Null
    /\ output = NoOutput

\* A DELETE_EXPERIMENT that deletes the logs of the experiment
DeleteExperimentCall_dropsLogs(id) ==
    /\ pc \in ProviderPcs
    /\ state' = PutAll(state,
           [experiments |->
                Arr(SelectSeq(Elems(Get(state, "experiments")),
                              LAMBDA e : Get(e, "id") # id)),
            dailyLogs |->
                Arr(SelectSeq(Elems(Get(state, "dailyLogs")),
                              LAMBDA l : Get(l, "experimentId") # id))])
    /\ output' = Returned(Undef)
    /\ UNCHANGED <<logDraft, editingLogId, dirty, savedAt, remote,
                   autosaveTimer, loading, pc, input, idCounter>>
    /\ SyncEffect

\* actions.deleteExperiment(id)
DeleteExperimentCall(id) ==
    /\ Dispatch([type |-> "DELETE_EXPERIMENT", payload |-> id])
    /\ UNCHANGED idCounter

\* The delete button of an experiment, or a delete of an id no experiment
\* has.
deleteExperiment ==
    /\ pc \in ProviderPcs
    /\ \E id \in CtxExperimentIds : DeleteExperimentCall(id)

NextExperiments ==
    \/ deleteExperiment
    \/ deleteLog

SpecExperiments == InitExperiments /\ [][NextExperiments]_vars

(***************************************************************************)
(* Claims about the aggregator and the KPI calculator                      *)
(***************************************************************************)
\* The numerator and denominator the specification's table gives a metric.
NumeratorOf(m) ==
    CASE m = "CR" -> "connections_accepted"
      [] m = "PRR" -> "permission_positives"
      [] m = "ABR" -> "offer_or_booking_intent_positives"
      [] m = "BOOKED_KPI" -> "booked_calls"
      [] m = "POSITIVE_TO_ABR" -> "offer_or_booking_intent_positives"
      [] m = "ABR_TO_BOOKED" -> "booked_calls"
      [] m = "SEEN_RATE" -> "permission_seen"
      [] m = "SHOW_UP_RATE" -> "attended_calls"
      [] m = "SCR" -> "closed_deals"

DenominatorOf(m) ==
    CASE m \in {"PRR", "ABR", "BOOKED_KPI", "SEEN_RATE"} ->
            "permission_messages_sent"
      [] m = "CR" -> "connection_requests_sent"
      [] m = "POSITIVE_TO_ABR" -> "permission_positives"
      [] m = "ABR_TO_BOOKED" -> "offer_or_booking_intent_positives"
      [] m = "SHOW_UP_RATE" -> "booked_calls"
      [] m = "SCR" -> "attended_calls"

\* The ratio a KpiResult reports for a metric.
KpiValue(kpis, m) ==
    IF m \in PrimaryMetrics THEN kpis.primary[m]
    ELSE IF m \in {"POSITIVE_TO_ABR", "ABR_TO_BOOKED"} THEN kpis.secondary[m]
    ELSE kpis.diagnostics[m]

\* Twice the target of a metric on the 0-100 scale (targets may end in .5).
TwiceTarget(targets, m) ==
    LET t == Get(targets, TargetKeyOf(m))
    IN  IF Tag(t) = "frac" THEN 2 * t[2] + 1 ELSE 2 * t[2]

KpisDone == pc = "computeKpis.done"

\* C4: each of the nine ratios is numerator/denominator when the denominator
\* is > 0 and null (never 0, NaN or Infinity) when the denominator is <= 0.
C4_SafeDivision ==
    KpisDone =>
        \A m \in Metrics :
            LET n == input.totals[NumeratorOf(m)]
                d == input.totals[DenominatorOf(m)]
                v == KpiValue(output[2], m)
            IN  IF d > 0 THEN v = Ratio(n, d) ELSE v = Null

\* C4 witness: one ratio has no data while another is a positive quotient.
C4_Witness ==
    /\ KpisDone
    /\ input.totals.connection_requests_sent = 0
    /\ output[2].primary.CR = Null
    /\ input.totals.permission_messages_sent = 1
    /\ output[2].primary.PRR = Ratio(1, 1)

\* The status the specification gives a ratio v = n/d against target T,
\* with pct = 100 * n / d and twoT = 2 * T.
StatusByPercent(v, twoT) ==
    IF 200 * v[2] >= twoT * v[3] THEN "good"
    ELSE IF 2000 * v[2] >= 9 * twoT * v[3] THEN "warn"
    ELSE "bad"

\* C5 as stated: the status is neutral iff the ratio is null, and otherwise
\* good when pct >= T, warn when 0.9*T <= pct < T, bad when pct < 0.9*T.
C5_Original ==
    KpisDone =>
        \A m \in Metrics :
            LET v == KpiValue(output[2], m)
                st == output[2].status[m]
            IN  /\ (st = "neutral") <=> (v = Null)
                /\ v # Null =>
                       st = StatusByPercent(v, TwiceTarget(input.targets, m))

\* C5 as amended: the status is neutral iff the ratio is null or the target
\* is not positive; otherwise it is good when pct >= T, warn when
\* 0.9*T < pct < T, bad when pct < 0.9*T, and warn or bad when pct is
\* exactly 0.9*T.
C5_StatusByTarget ==
    KpisDone =>
        \A m \in Metrics :
            LET v == KpiValue(output[2], m)
                twoT == TwiceTarget(input.targets, m)
                st == output[2].status[m]
            IN  /\ (st = "neutral") <=> (v = Null \/ twoT <= 0)
                /\ (v # Null /\ twoT > 0) =>
                      IF 2000 * v[2] = 9 * twoT * v[3]
                      THEN st \in {"warn", "bad"}
                      ELSE st = StatusByPercent(v, twoT)

\* C5 witness: one result holds a bad, a warn, a good and a neutral status,
\* the neutral one for a ratio that is not null.
C5_Witness ==
    /\ KpisDone
    /\ output[2].primary.ABR = Ratio(9, 25) /\ output[2].status.ABR = "bad"
    /\ output[2].primary.CR = Ratio(9, 10) /\ output[2].status.CR = "warn"
    /\ output[2].status.POSITIVE_TO_ABR = "good"
    /\ output[2].primary.PRR # Null /\ output[2].status.PRR = "neutral"

\* Whether a primary metric meets its target: ratio * 100 >= target, a null
\* ratio counting as 0.
MeetsTarget(m) ==
    LET v == KpiValue(output[2], m)
        twoT == TwiceTarget(input.targets, m)
    IN  IF v = Null THEN 0 >= twoT ELSE 200 * v[2] >= twoT * v[3]

\* C6: the bottleneck is decided by the first rule that matches, in the order
\* BOOKED_KPI, ABR, PRR, CR; all four met gives "None (scale volume)" and
\* none met gives "Targeting/Profile resonance".
C6_BottleneckFirstMatch ==
    KpisDone =>
        /\ output[2].bottleneck =
              IF MeetsTarget("BOOKED_KPI") THEN "None (scale volume)"
              ELSE IF MeetsTarget("ABR") THEN "Booking stage"
              ELSE IF MeetsTarget("PRR") THEN "Offer stage"
              ELSE IF MeetsTarget("CR") THEN "Permission stage"
              ELSE "Targeting/Profile resonance"
        /\ (\A m \in PrimaryMetrics : MeetsTarget(m)) =>
               output[2].bottleneck = "None (scale volume)"
        /\ (\A m \in PrimaryMetrics : ~MeetsTarget(m)) =>
               output[2].bottleneck = "Targeting/Profile resonance"

\* C6 witness: BOOKED_KPI and ABR miss their targets, PRR meets its target
\* exactly and a null CR meets a target of 0; the earlier rule (PRR) decides.
C6_Witness ==
    /\ KpisDone
    /\ ~MeetsTarget("BOOKED_KPI") /\ ~MeetsTarget("ABR")
    /\ output[2].primary.PRR = Ratio(1, 1)
    /\ Get(input.targets, "PRR") = N(100)
    /\ output[2].primary.CR = Null /\ MeetsTarget("CR")
    /\ output[2].bottleneck = "Offer stage"

RECURSIVE SumField(_, _)
SumField(logs, f) ==
    IF logs = <<>> THEN 0 ELSE Get(Head(logs), f)[2] + SumField(Tail(logs), f)

AggDone == pc = "computeAggregates.done"

\* C7: computeAggregates returns the field-wise sum of the eleven count
\* fields; the result is the same for every permutation of the list, is the
\* field-wise sum of the aggregates of the two parts of any split, and is
\* the all-zero record for the empty list.
C7_AggregateIsSum ==
    AggDone =>
        LET logs == Elems(input.logs)
            n == Len(logs)
        IN  /\ DOMAIN output[2] = CountFields
            /\ \A f \in CountFields : output[2][f] = SumField(logs, f)
            /\ \A p \in Permutations(1..n) :
                  computeAggregates(Arr([i \in 1..n |-> logs[p[i]]])) = output[2]
            /\ \A k \in 0..n :
                  LET a == computeAggregates(Arr(SubSeq(logs, 1, k)))
                      b == computeAggregates(Arr(SubSeq(logs, k + 1, n)))
                  IN  output[2] = [f \in CountFields |-> a[f] + b[f]]
            /\ n = 0 => output[2] = [f \in CountFields |-> 0]

\* C7 witness: three logs, not all alike, have been summed.
C7_Witness ==
    /\ AggDone
    /\ Len(Elems(input.logs)) = 3
    /\ Elems(input.logs)[1] = FunnelLog
    /\ Elems(input.logs)[2] = BoundaryLog
    /\ Elems(input.logs)[3] = UnitLog("booked_calls")
    /\ output[2].booked_calls = 11
    /\ output[2].connection_requests_sent = 110
    /\ output[2].permission_messages_sent = 55

(***************************************************************************)
(* Claims about the experiment evaluator                                   *)
(***************************************************************************)
StatsDone == pc = "computeExperimentStats.done"
SummariesDone == pc = "experimentSummaries.done"

\* The validity gate on one entry of computeExperimentStats's result.
GateHoldsForStat(e) ==
    LET vs == Elems(Get(e, "variantStats"))
        variants == Elems(Get(Get(e, "experiment"), "variants"))
        required == Get(Get(e, "experiment"), "required_sample_size_seen")[2]
        w == Get(e, "winner")
        J == 1..Len(vs)
    IN  /\ Len(vs) = Len(variants)
        /\ \A j \in J :
              /\ Get(vs[j], "variant") = variants[j]
              /\ Get(vs[j], "required") = required
              /\ Get(vs[j], "isValid") =
                    (required = 0 \/ Get(vs[j], "seen") >= required)
              /\ (required = 60 /\ Get(vs[j], "seen") = 59) => w # vs[j]
        /\ w = Null \/ \E j \in J : w = vs[j] /\ Get(vs[j], "isValid")
        /\ (w = Null) <=> (\A j \in J : ~Get(vs[j], "isValid"))

\* The validity gate on one entry of experimentSummaries.
GateHoldsForSummary(e) ==
    LET vs == Elems(Get(e, "variants"))
        variants == Elems(Get(Get(e, "exp"), "variants"))
        required == Get(Get(e, "exp"), "requiredSampleSizeSeen")[2]
        w == Get(e, "winner")
        J == 1..Len(vs)
    IN  /\ Len(vs) = Len(variants)
        /\ \A j \in J :
              /\ Get(vs[j], "variant") = variants[j]
              /\ Get(vs[j], "isValid") =
                    (required = 0 \/ Get(vs[j], "seen") >= required)
              /\ (required = 60 /\ Get(vs[j], "seen") = 59) => w # vs[j]
        /\ w = Null \/ \E j \in J : w = vs[j] /\ Get(vs[j], "isValid")
        /\ (w = Null) <=> (\A j \in J : ~Get(vs[j], "isValid"))

\* C1: in the result of computeExperimentStats and in experimentSummaries,
\* the winner of an experiment is null or the statistics of one of its
\* variants whose isValid is true, isValid being (required = 0) or
\* (seen >= required) on the seen count reported with the variant; the
\* winner is null exactly when no variant is valid; with required 60 a
\* variant whose seen is 59 is not the winner.
C1_WinnerIsValidVariant ==
    /\ StatsDone =>
          /\ output[2] # Throw
          /\ \A i \in 1..Len(Elems(output[2])) :
                GateHoldsForStat(Elems(output[2])[i])
    /\ SummariesDone =>
          \A i \in 1..Len(Elems(output[2])) :
              GateHoldsForSummary(Elems(output[2])[i])

\* C1 witness: required 60; the first variant has seen 59 and the highest
\* metric value, the second variant is valid and is the winner.
C1_Witness ==
    /\ StatsDone
    /\ LET e == Elems(output[2])[1]
           vs == Elems(Get(e, "variantStats"))
       IN  /\ Get(vs[1], "required") = 60
           /\ Get(vs[1], "seen") = 59 /\ ~Get(vs[1], "isValid")
           /\ Get(vs[2], "isValid")
           /\ Get(vs[1], "metricValue") # Null
           /\ Get(vs[2], "metricValue") # Null
           /\ RatGT(Get(vs[1], "metricValue"), Get(vs[2], "metricValue"))
           /\ Get(e, "winner") = vs[2]

\* The seen total of the stage alone.
StageSeenTotal(stage, totals) ==
    IF stage = S("PERMISSION") THEN totals.permission_seen
    ELSE IF stage = S("OFFER") THEN totals.offer_seen
    ELSE 0

\* C2: the seen count of every variant is the variant's total
\* permission_seen for stage PERMISSION, its total offer_seen for stage
\* OFFER and 0 for every other stage, whatever the counts of messages sent.
C2_SeenIsStageSeenTotal ==
    StatsDone =>
        \A i \in 1..Len(Elems(output[2])) :
            LET e == Elems(output[2])[i]
                vs == Elems(Get(e, "variantStats"))
                stage == Get(Get(e, "experiment"), "funnel_stage_targeted")
            IN  \A j \in 1..Len(vs) :
                    Get(vs[j], "seen") =
                        StageSeenTotal(stage, Get(vs[j], "totals"))

\* C2: the state that departs from it: stage PERMISSION, required 60, a
\* variant with 100 permission messages sent and none seen is reported with
\* seen 100 and is valid.
C2_SentCountedAsSeen ==
    /\ StatsDone
    /\ LET e == Elems(output[2])[1]
           vs == Elems(Get(e, "variantStats"))
       IN  /\ Get(Get(e, "experiment"), "funnel_stage_targeted") = S("PERMISSION")
           /\ Get(vs[1], "required") = 60
           /\ Get(vs[1], "totals").permission_seen = 0
           /\ Get(vs[1], "totals").permission_messages_sent = 100
           /\ Get(vs[1], "seen") = 100
           /\ Get(vs[1], "isValid")

\* The metric value of a variant's statistics as the comparison reads it.
ComparedMetric(stat) ==
    IF Get(stat, "metricValue") = Null THEN Ratio(-1, 1)
    ELSE Get(stat, "metricValue")

\* C3: when some variant is valid, the winner is the valid variant whose
\* metric value (null read as -1) is at least that of every valid variant
\* and strictly greater than that of every valid variant before it in
\* experiment.variants; so a valid variant with metric value 0 is never
\* beaten by a valid variant with a null metric value.
C3_WinnerIsFirstGreatest ==
    StatsDone =>
        \A i \in 1..Len(Elems(output[2])) :
            LET e == Elems(output[2])[i]
                vs == Elems(Get(e, "variantStats"))
                valid == {j \in 1..Len(vs) : Get(vs[j], "isValid")}
                w == Get(e, "winner")
            IN  valid # {} =>
                  /\ \E k \in valid :
                        /\ w = vs[k]
                        /\ \A j \in valid :
                              RatGE(ComparedMetric(vs[k]), ComparedMetric(vs[j]))
                        /\ \A j \in valid :
                              j < k => RatGT(ComparedMetric(vs[k]),
                                             ComparedMetric(vs[j]))
                  /\ (\E j \in valid : Get(vs[j], "metricValue") # Null)
                        => Get(w, "metricValue") # Null

\* C3 witness: no sample size is required; the first variant has no logs,
\* so a null metric value, the second has metric value 0 and is the winner.
C3_Witness ==
    /\ StatsDone
    /\ LET e == Elems(output[2])[1]
           vs == Elems(Get(e, "variantStats"))
       IN  /\ Get(vs[1], "isValid") /\ Get(vs[2], "isValid")
           /\ Get(vs[1], "required") = 0
           /\ Get(vs[1], "metricValue") = Null
           /\ Get(vs[2], "metricValue") # Null
           /\ Get(vs[2], "metricValue")[2] = 0
           /\ Get(e, "winner") = vs[2]

\* A tie for the greatest metric value between two valid variants, won by
\* the earlier one.
C3_TieKeepsEarliest ==
    /\ StatsDone
    /\ LET e == Elems(output[2])[1]
           vs == Elems(Get(e, "variantStats"))
       IN  /\ Get(vs[1], "isValid") /\ Get(vs[2], "isValid")
           /\ Get(vs[1], "metricValue") # Null
           /\ Get(vs[1], "metricValue")[2] > 0
           /\ Get(vs[1], "metricValue") = Get(vs[2], "metricValue")
           /\ Get(e, "winner") = vs[1]

(***************************************************************************)
(* Claims about the normalizer                                             *)
(***************************************************************************)
NormalizedOnce == pc = "normalizeState.done"
NormalizedTwice == pc = "normalizeState.twice"

\* C8: normalizeState applied to its own result returns that result: no
\* field of the config, of a log, experiment, variant or prospect changes
\* (the ids and dates the first call generated are part of its result).
C8_NormalizeIdempotent ==
    NormalizedTwice => output = Returned(input.once)

\* C8: the state that departs from it: an account whose name is a blank
\* string is normalized to the name "" and, from there, to "Account 1".
C8_BlankNameRenamed ==
    /\ NormalizedTwice
    /\ input.raw = Obj([config |-> Obj([accounts |-> Arr(<<Obj([name |-> S(" ")])>>)])])
    /\ Get(Elems(Get(Get(input.once, "config"), "accounts"))[1], "name") = EmptyStr
    /\ output # Throw
    /\ Get(Elems(Get(Get(output[2], "config"), "accounts"))[1], "name")
          = Str(<<"Account", " ", "1">>)

IsString(v) == Tag(v) \in {"str", "date"}
IsBoolean(v) == Tag(v) = "bool"
IsCount(v) == Tag(v) = "int" /\ v[2] >= 0
IsAmount(v) == Tag(v) \in {"int", "frac"} /\ v[2] >= 0

AllOf(arr, P(_)) == IsArray(arr) /\ \A i \in 1..Len(Elems(arr)) : P(Elems(arr)[i])

IsAccount(a) ==
    /\ IsString(Get(a, "id")) /\ IsString(Get(a, "name"))
    /\ \A f \in GoalFields : IsCount(Get(Get(a, "goals"), f))

IsConfig(c) ==
    /\ IsBoolean(Get(c, "autosave"))
    /\ IsBoolean(Get(c, "excludeOldLeadsFromKpi"))
    /\ \A k \in DOMAIN DEFAULT_TARGETS[2] : IsAmount(Get(Get(c, "kpiTargets"), k))
    /\ AllOf(Get(c, "accounts"), IsAccount)
    /\ Len(Elems(Get(c, "accounts"))) > 0

IsLog(l) ==
    /\ \A f \in {"id", "date", "account_id", "campaign_tag", "notes",
                 "experiment_id", "variant_id"} : IsString(Get(l, f))
    /\ IsBoolean(Get(l, "is_old_leads_lane"))
    /\ \A f \in CountFields : IsCount(Get(l, f))

IsVariant(v) ==
    \A f \in {"id", "name", "message", "step_type"} : IsString(Get(v, f))

IsExperiment(e) ==
    /\ \A f \in {"id", "name", "status", "hypothesis", "notes", "createdAt",
                 "funnel_stage_targeted", "primary_metric"} : IsString(Get(e, f))
    /\ IsCount(Get(e, "required_sample_size_seen"))
    /\ AllOf(Get(e, "variants"), IsVariant)
    /\ Len(Elems(Get(e, "variants"))) > 0

IsProspect(q) ==
    /\ \A f \in {"id", "name", "linkedin_url", "notes", "account_id", "stage"} :
          IsString(Get(q, f))
    /\ IsBoolean(Get(q, "is_old_leads_lane"))

IsAppState(st) ==
    /\ IsConfig(Get(st, "config"))
    /\ AllOf(Get(st, "logs"), IsLog)
    /\ AllOf(Get(st, "experiments"), IsExperiment)
    /\ AllOf(Get(st, "prospects"), IsProspect)
    /\ IsBoolean(Get(Get(st, "ui"), "isDark"))

\* C9: normalizeState returns for every raw input, without throwing, and
\* its result is an AppState every field of which has its type.
C9_NormalizeTotal ==
    NormalizedOnce => (output # Throw /\ IsAppState(output[2]))

\* C9: the state that departs from it: a log whose notes are the number 5
\* makes normalizeState throw.
C9_NumberNotesThrows ==
    /\ NormalizedOnce
    /\ input.raw = Obj([logs |-> Arr(<<Obj([notes |-> N(5)])>>)])
    /\ output = Throw

(***************************************************************************)
(* Claims about the Dashboard component                                    *)
(***************************************************************************)
\* C10: in every state of the mounted component, each of the eleven count
\* fields of each log of state.logs is an integer that is not negative.
C10_CountsAreNonNegIntegers ==
    pc = "ready" =>
        \A i \in 1..Len(Elems(Get(state, "logs"))) :
            \A f \in CountFields :
                LET v == Get(Elems(Get(state, "logs"))[i], f)
                IN  Tag(v) = "int" /\ v[2] >= 0

\* C10 witness: the log stored with permission_seen 2.5 was loaded, edited
\* in the form with "7.5" typed into the field, saved as a log of the
\* renamed account, and written to storage by handleSave.
C10_Witness ==
    /\ pc = "ready"
    /\ storage.current # Absent
    /\ Get(storage.current, "savedAt") # S("T0")
    /\ Get(Get(storage.current, "data"), "logs") = Get(state, "logs")
    /\ Len(Elems(Get(state, "logs"))) = 1
    /\ LET log == Elems(Get(state, "logs"))[1]
       IN  /\ Get(log, "id") = S("s1")
           /\ Get(log, "permission_seen") = N(7)
           /\ Get(log, "account_id") = S("a")

(***************************************************************************)
(* Claims about the filter engine                                          *)
(***************************************************************************)
FilterDone == pc = "filterLogs.done"
TotalsDone == pc = "totals.done"

\* A criterion is supplied unless it is omitted or the "all" of the selects.
Supplied(v) == v # Undef /\ v # S("all")

PassesAccount(log, c) ==
    Supplied(Get(c, "accountId")) => Get(log, "account_id") = Get(c, "accountId")

PassesCampaign(log, c) ==
    Supplied(Get(c, "campaignTag")) =>
        Get(log, "campaign_tag") = Get(c, "campaignTag")

PassesDates(log, c) ==
    /\ Get(c, "start") # Undef => Get(c, "start")[2] <= Get(log, "date")[2]
    /\ Get(c, "end") # Undef => Get(log, "date")[2] <= Get(c, "end")[2]

PassesExperiment(log, c) ==
    /\ Get(c, "experimentId") # Undef =>
           Get(log, "experiment_id") = Get(c, "experimentId")
    /\ Get(c, "variantId") # Undef =>
           Get(log, "variant_id") = Get(c, "variantId")

IsOldLane(log) == Get(log, "is_old_leads_lane") = B(TRUE)

PassesLane(log, c) ==
    IF Get(c, "onlyOldLeads") = B(TRUE) THEN IsOldLane(log)
    ELSE IF Get(c, "excludeOldLeads") = B(TRUE) THEN ~IsOldLane(log)
    ELSE TRUE

PassesAccountCampaignDates(log, c) ==
    PassesAccount(log, c) /\ PassesCampaign(log, c) /\ PassesDates(log, c)

\* C11: filterLogs returns, in the original order and unmodified, exactly
\* the logs that satisfy every supplied criterion: accountId, campaignTag,
\* experimentId, variantId, the inclusive date range and the lane mode.
C11_FilterAppliesEveryCriterion ==
    FilterDone =>
        output = Returned(Arr(SelectSeq(Elems(input.logs),
                     LAMBDA log :
                         /\ PassesAccountCampaignDates(log, input.filters)
                         /\ PassesExperiment(log, input.filters)
                         /\ PassesLane(log, input.filters))))

\* C11: a call that supplies experimentId "e1" and no other criterion
\* returned a log of experiment "e2".
C11_OtherExperimentKept ==
    /\ FilterDone
    /\ input.filters = Obj([start |-> Undef, end |-> Undef, accountId |-> Undef,
                            campaignTag |-> Undef, experimentId |-> S("e1"),
                            variantId |-> Undef, onlyOldLeads |-> Undef,
                            excludeOldLeads |-> Undef])
    /\ output # Throw
    /\ \E i \in 1..Len(Elems(output[2])) :
          Get(Elems(output[2])[i], "experiment_id") = S("e2")

\* What filterLogs does apply: account, campaign, dates and the lane mode,
\* in the original order and without modifying a log.
FilterAppliesTheOtherCriteria ==
    FilterDone =>
        output = Returned(Arr(SelectSeq(Elems(input.logs),
                     LAMBDA log :
                         /\ PassesAccountCampaignDates(log, input.filters)
                         /\ PassesLane(log, input.filters))))

\* The logs of the input that pass the account, campaign and date criteria.
PassingLogs == SelectSeq(Elems(input.logs),
                   LAMBDA log : PassesAccountCampaignDates(log, input.filters))

\* C12: with onlyOldLeads set the result is exactly the old-lane logs that
\* pass the account, campaign and date criteria, whatever excludeOldLeads
\* is; otherwise with excludeOldLeads set it is those that are not old-lane;
\* with neither set no log is removed on lane grounds.  With
\* excludeOldLeadsFromKpi = true the dashboard's totals are the sums over the
\* passing logs that are not old-lane, the old-lane totals the sums over the
\* passing old-lane logs, and for each count field the two add up to the sum
\* over all passing logs.
C12_OldLeadModes ==
    /\ FilterDone =>
          output = Returned(Arr(
              IF Get(input.filters, "onlyOldLeads") = B(TRUE)
              THEN SelectSeq(PassingLogs, IsOldLane)
              ELSE IF Get(input.filters, "excludeOldLeads") = B(TRUE)
              THEN SelectSeq(PassingLogs, LAMBDA log : ~IsOldLane(log))
              ELSE PassingLogs))
    /\ TotalsDone /\ input.excludeOldLeadsFromKpi =>
          /\ \A i \in 1..Len(Elems(output[2].filteredLogs)) :
                ~IsOldLane(Elems(output[2].filteredLogs)[i])
          /\ \A i \in 1..Len(Elems(output[2].oldLeadsLogs)) :
                IsOldLane(Elems(output[2].oldLeadsLogs)[i])
          /\ \A f \in CountFields :
                /\ output[2].totals[f] =
                       SumField(SelectSeq(PassingLogs,
                                    LAMBDA log : ~IsOldLane(log)), f)
                /\ output[2].oldLeadsTotals[f] =
                       SumField(SelectSeq(PassingLogs, IsOldLane), f)
                /\ output[2].totals[f] + output[2].oldLeadsTotals[f] =
                       SumField(PassingLogs, f)

\* C12 witness: with excludeOldLeadsFromKpi = true and no restriction, a log
\* with 1 booked call and an old-lane log with 5 give KPI totals of 1 booked
\* call and old-lane totals of 5.
C12_Witness ==
    /\ TotalsDone /\ input.excludeOldLeadsFromKpi
    /\ Len(Elems(input.logs)) = 2
    /\ Len(PassingLogs) = 2
    /\ output[2].totals["booked_calls"] = 1
    /\ output[2].oldLeadsTotals["booked_calls"] = 5

\* C12: a call with both onlyOldLeads and excludeOldLeads set returned an
\* old-lane log.
C12_OnlyOldLeadsWins ==
    /\ FilterDone
    /\ Get(input.filters, "onlyOldLeads") = B(TRUE)
    /\ Get(input.filters, "excludeOldLeads") = B(TRUE)
    /\ Len(Elems(output[2])) = 2

(***************************************************************************)
(* Claims about aliases and legacy logs                                    *)
(***************************************************************************)
LogDone == pc = "normalizeLog.done"
DailyLogDone == pc = "migrations.normalizeLog.done"

\* The first of the values that is not undefined, undefined if none is.
RECURSIVE FirstDefined(_)
FirstDefined(values) ==
    IF values = <<>> THEN Undef
    ELSE IF Head(values) # Undef THEN Head(values)
    ELSE FirstDefined(Tail(values))

BookedAliases ==
    <<Get(input.log, "booked_calls"), Get(input.log, "bookedCalls"),
      Get(input.log, "booked")>>

\* C13: the normalized log's booked calls are the value of the first of
\* booked_calls, bookedCalls, booked that is not undefined (0 when that value
\* is null or when all three are undefined), in Dashboard.jsx and in
\* utils/migrations.ts.
C13_FirstDefinedAliasWins ==
    /\ LogDone =>
          Get(output[2], "booked_calls") = clampNonNegInt(FirstDefined(BookedAliases))
    /\ DailyLogDone =>
          Get(output[2], "bookedCalls") = Coalesce(FirstDefined(BookedAliases), N(0))

\* C13: normalizeLog of Dashboard.jsx on {booked_calls: 0, booked: 3}
\* returned booked_calls 3.
C13_ZeroSkipped ==
    /\ LogDone
    /\ input.log = Obj([booked_calls |-> N(0), booked |-> N(3)])
    /\ Get(output[2], "booked_calls") = N(3)

\* C13: normalizeLog of Dashboard.jsx on {bookedCalls: 2} returned
\* booked_calls 0, and that of utils/migrations.ts on {booked_calls: 1}
\* returned bookedCalls 0.
C13_AliasNotRead ==
    \/ /\ LogDone
       /\ input.log = Obj([bookedCalls |-> N(2)])
       /\ Get(output[2], "booked_calls") = N(0)
    \/ /\ DailyLogDone
       /\ input.log = Obj([booked_calls |-> N(1)])
       /\ Get(output[2], "bookedCalls") = N(0)

LegacyDone == pc = "migrateLegacyState.done"

\* The one log of the legacy state, and the one log of the migrated state.
LegacyInputLog ==
    LET l == input.legacy
    IN  Elems(Or3(Get(l, "logs"), Get(l, "dailyLogs"), Get(l, "daily")))[1]

MigratedLog == Elems(Get(output[2], "logs"))[1]

\* The log's calendly / calendlySent value.
CalendlyValue(log) == Coalesce(Get(log, "calendly"), Get(log, "calendlySent"))

\* C14: migrateLegacyState maps a legacy log's sent to
\* permission_messages_sent, accepted to connections_accepted, booked to
\* booked_calls, and sets offer_or_booking_intent_positives to the log's
\* calendly / calendlySent value when that value is > 0 and to 0 otherwise.
C14_LegacyLogMapped ==
    LegacyDone =>
        /\ Len(Elems(Get(output[2], "logs"))) = 1
        /\ Get(MigratedLog, "permission_messages_sent") =
               Coalesce(Get(LegacyInputLog, "sent"), N(0))
        /\ Get(MigratedLog, "connections_accepted") =
               Coalesce(Get(LegacyInputLog, "accepted"), N(0))
        /\ Get(MigratedLog, "booked_calls") =
               Coalesce(Get(LegacyInputLog, "booked"), N(0))
        /\ Get(MigratedLog, "offer_or_booking_intent_positives") =
               IF IsPositive(CalendlyValue(LegacyInputLog))
               THEN CalendlyValue(LegacyInputLog) ELSE N(0)

\* C14: the legacy log {sent: 50, accepted: 10, booked: 2, calendlySent: 4}
\* was migrated to a log with offer_or_booking_intent_positives 0.
C14_CalendlySentIgnored ==
    /\ LegacyDone
    /\ LegacyInputLog = Obj([sent |-> N(50), accepted |-> N(10),
                             booked |-> N(2), calendlySent |-> N(4)])
    /\ Get(MigratedLog, "permission_messages_sent") = N(50)
    /\ Get(MigratedLog, "connections_accepted") = N(10)
    /\ Get(MigratedLog, "booked_calls") = N(2)
    /\ Get(MigratedLog, "offer_or_booking_intent_positives") = N(0)

\* C14: the claim's example {sent: 50, accepted: 10, booked: 2,
\* calendlySent: 0} was migrated to 50, 10, 2 and 0.
C14_ExampleMigrated ==
    /\ LegacyDone
    /\ LegacyInputLog = Obj([sent |-> N(50), accepted |-> N(10),
                             booked |-> N(2), calendlySent |-> N(0)])
    /\ Get(MigratedLog, "permission_messages_sent") = N(50)
    /\ Get(MigratedLog, "connections_accepted") = N(10)
    /\ Get(MigratedLog, "booked_calls") = N(2)
    /\ Get(MigratedLog, "offer_or_booking_intent_positives") = N(0)

\* What migrateLegacyState does with the legacy fields: as C14 states, with
\* calendly alone as the source of the offer positives.
LegacyLogMappedFromCalendly ==
    LegacyDone =>
        /\ Get(MigratedLog, "permission_messages_sent") =
               Coalesce(Get(LegacyInputLog, "sent"), N(0))
        /\ Get(MigratedLog, "connections_accepted") =
               Coalesce(Get(LegacyInputLog, "accepted"), N(0))
        /\ Get(MigratedLog, "booked_calls") =
               Coalesce(Get(LegacyInputLog, "booked"), N(0))
        /\ Get(MigratedLog, "offer_or_booking_intent_positives") =
               IF IsPositive(Get(LegacyInputLog, "calendly"))
               THEN Get(LegacyInputLog, "calendly") ELSE N(0)

(***************************************************************************)
(* Claims about the experiments tab                                        *)
(***************************************************************************)
Experiments == Elems(Get(state, "experiments"))

\* The experiment the component was mounted on, and the state right after
\* the mount: nothing edited, nothing saved.
StoredExperiment ==
    Elems(Get(Get(storage.current, "data"), "experiments"))[1]

JustMounted ==
    /\ pc = "ready" /\ ~dirty
    /\ Get(storage.current, "savedAt") = S("T0")

HasNoVariants(experiment) ==
    ~(IsArray(Get(experiment, "variants"))
      /\ Len(Elems(Get(experiment, "variants"))) > 0)

EveryExperimentHasAVariant ==
    pc = "ready" =>
        \A i \in 1..Len(Experiments) :
            /\ IsArray(Get(Experiments[i], "variants"))
            /\ Len(Elems(Get(Experiments[i], "variants"))) >= 1

\* C15 as stated: every experiment has at least one variant in every state
\* of the mounted component, and an experiment stored without variants has
\* exactly one variant, named "Variant A", after normalization.
C15_Original ==
    /\ EveryExperimentHasAVariant
    /\ JustMounted /\ HasNoVariants(StoredExperiment) =>
          /\ Len(Elems(Get(Experiments[1], "variants"))) = 1
          /\ Get(Elems(Get(Experiments[1], "variants"))[1], "name") =
                 Str(<<"Variant", " ", "A">>)

\* C15 amended: every experiment has at least one variant in every state of
\* the mounted component, and an experiment stored without variants has
\* exactly one variant after normalization, named by its trimmed legacy
\* messageLabel if it has one and "Variant A" otherwise.
C15_VariantsNeverEmpty ==
    /\ EveryExperimentHasAVariant
    /\ JustMounted /\ HasNoVariants(StoredExperiment) =>
          /\ Len(Elems(Get(Experiments[1], "variants"))) = 1
          /\ Get(Elems(Get(Experiments[1], "variants"))[1], "name") =
                 IF Truthy(Get(StoredExperiment, "messageLabel"))
                 THEN Trim(Get(StoredExperiment, "messageLabel"))
                 ELSE Str(<<"Variant", " ", "A">>)

\* C15 witness: removeVariant was applied to the only variant of the stored
\* experiment; the experiment is as it was mounted and the state is dirty.
C15_Witness ==
    /\ pc = "ready" /\ dirty /\ idCounter = 0
    /\ StoredExperiment = FullExperiment
    /\ Experiments =
           <<normalizeExperiment(FullExperiment, Run(1), <<"_experiment_", "1">>)>>
    /\ Len(Elems(Get(Experiments[1], "variants"))) = 1

\* removeVariant applied to the only variant of an experiment leaves the
\* experiments unchanged.
RemoveOnlyVariantKeepsList ==
    [][pc = "ready" =>
       \A i \in 1..Len(Experiments) :
          \A j \in 1..Len(Elems(Get(Experiments[i], "variants"))) :
              (/\ Len(Elems(Get(Experiments[i], "variants"))) = 1
               /\ RemoveVariantCall(Get(Experiments[i], "id"),
                      Get(Elems(Get(Experiments[i], "variants"))[j], "id")))
              => Get(state, "experiments")' = Get(state, "experiments")]_vars

(***************************************************************************)
(* Claims about the accounts of the settings tab                           *)
(***************************************************************************)
Accounts == Elems(Get(Get(state, "config"), "accounts"))

\* The record `after` is the record `before` with its field f set to v.
SameBut(before, after, f, v) ==
    /\ Tag(after) = "obj" /\ Tag(before) = "obj"
    /\ DOMAIN after[2] = DOMAIN before[2] \cup {f}
    /\ after[2][f] = v
    /\ \A g \in DOMAIN before[2] \ {f} : after[2][g] = before[2][g]

\* What C16 says of one collection of records carrying an account_id.
CascadedTo(before, after, oldId, nextId) ==
    /\ Len(after) = Len(before)
    /\ \A i \in 1..Len(before) :
          IF Get(before[i], "account_id") = oldId
          THEN SameBut(before[i], after[i], "account_id", nextId)
          ELSE after[i] = before[i]

RenameFrame(index, nextId) ==
    LET oldId == Get(Accounts[index], "id")
        accountsAfter == Elems(Get(Get(state', "config"), "accounts"))
    IN  /\ Len(accountsAfter) = Len(Accounts)
        /\ \A i \in 1..Len(Accounts) :
              IF i = index
              THEN SameBut(Accounts[i], accountsAfter[i], "id", nextId)
              ELSE accountsAfter[i] = Accounts[i]
        /\ CascadedTo(Elems(Get(state, "logs")), Elems(Get(state', "logs")),
                      oldId, nextId)
        /\ CascadedTo(Elems(Get(state, "prospects")),
                      Elems(Get(state', "prospects")), oldId, nextId)
        /\ \A f \in DOMAIN state[2] \ {"config", "logs", "prospects"} :
              Get(state', f) = Get(state, f)
        /\ \A f \in DOMAIN Get(state, "config")[2] \ {"accounts"} :
              Get(Get(state', "config"), f) = Get(Get(state, "config"), f)

\* C16: updateAccountId(index, nextId) gives the account at the index the id
\* nextId and sets account_id to nextId on exactly the logs and prospects
\* that carried the old id; every other account, log and prospect, every
\* other field, and the number and order of the records stay as they were.
C16_UpdateAccountIdCascades ==
    [][\A index \in 1..2, nextId \in AnyAccountIds :
          (/\ pc = "ready"
           /\ index <= Len(Accounts)
           /\ UpdateAccountIdCall(index, nextId)) => RenameFrame(index, nextId)]_vars

\* The first account renamed to "a": its log and its prospect followed, the
\* second account's did not.
C16_Witness ==
    /\ pc = "ready" /\ dirty
    /\ Get(Accounts[1], "id") = S("a")
    /\ Get(Accounts[2], "id") = S("b")
    /\ Get(Elems(Get(state, "logs"))[1], "account_id") = S("a")
    /\ Get(Elems(Get(state, "logs"))[2], "account_id") = S("b")
    /\ Get(Elems(Get(state, "prospects"))[1], "account_id") = S("a")
    /\ Get(Elems(Get(state, "prospects"))[2], "account_id") = S("b")

\* C17: the ids of the accounts are pairwise distinct in every state of the
\* mounted component.
C17_AccountIdsDistinct ==
    pc = "ready" =>
        \A i, j \in 1..Len(Accounts) :
            i # j => Get(Accounts[i], "id") # Get(Accounts[j], "id")

\* Two accounts that had ids of their own in storage hold the same id after
\* the Account ID field of one of them was given the id of the other.
C17_DuplicateAfterRename ==
    /\ pc = "ready" /\ dirty
    /\ storage.current # Absent
    /\ LET stored == Elems(Get(Get(Get(storage.current, "data"), "config"),
                               "accounts"))
       IN  /\ Get(stored[1], "id") = AccountIdFor(0)
           /\ Get(stored[2], "id") = S("b")
    /\ Get(Accounts[1], "id") = S("b")
    /\ Get(Accounts[2], "id") = S("b")

\* normalizeConfig gave two accounts the same id: the component has just
\* mounted on a stored list whose first account carries the id "account_2".
C17_DuplicateAfterNormalize ==
    /\ pc = "ready" /\ ~dirty /\ savedAt = S("T0")
    /\ Get(Accounts[1], "id") = AccountIdFor(1)
    /\ Get(Accounts[2], "id") = AccountIdFor(1)
    /\ Get(Accounts[2], "name") = S("Second")

(***************************************************************************)
(* Claims about the accounts of the context                                *)
(***************************************************************************)
CtxAccountList == Elems(Get(Get(state, "settings"), "accounts"))

ReferencedByLog(id) ==
    \E i \in 1..Len(Elems(Get(state, "dailyLogs"))) :
        Get(Elems(Get(state, "dailyLogs"))[i], "accountId") = id

\* C18: deleting an account that a daily log references is rejected: the
\* accounts and the logs stay as they were and the call answers with a
\* failure, not with the nothing of a plain dispatch.
C18_ReferencedAccountKept ==
    [][\A id \in {AccountIdFor(0), AccountIdFor(1)} :
          (/\ pc = "context"
           /\ ReferencedByLog(id)
           /\ DeleteAccountCall(id))
          => /\ Get(state', "settings") = Get(state, "settings")
             /\ Get(state', "dailyLogs") = Get(state, "dailyLogs")
             /\ output' # Returned(Undef)]_vars

\* The first account is gone, a log still names it, and the call returned
\* nothing.
C18_ReferencedAccountDeleted ==
    /\ pc = "context"
    /\ ReferencedByLog(AccountIdFor(0))
    /\ \A i \in 1..Len(CtxAccountList) :
          Get(CtxAccountList[i], "id") # AccountIdFor(0)
    /\ output = Returned(Undef)

(***************************************************************************)
(* Claims about the stage defaults of an experiment                        *)
(***************************************************************************)
\* The table of C19.
ClaimedMetric ==
    [CONNECTION |-> "CR", PERMISSION |-> "PRR", OFFER |-> "ABR",
     BOOKING |-> "BOOKED_KPI"]

ClaimedRequired ==
    [CONNECTION |-> 0, PERMISSION |-> 60, OFFER |-> 30, BOOKING |-> 0]

StageName(experiment) == Get(experiment, "funnel_stage_targeted")[2][1]

\* After the mount the experiment holds what its stored record carried, and
\* the values of its stage for what the record did not carry.
MountedWithStageDefaults ==
    JustMounted =>
        LET n == Experiments[1]
        IN  /\ StageName(n) \in EXPERIMENT_STAGES
            /\ Get(n, "primary_metric") =
                   IF Get(StoredExperiment, "primary_metric") # Undef
                   THEN Get(StoredExperiment, "primary_metric")
                   ELSE S(ClaimedMetric[StageName(n)])
            /\ Get(n, "required_sample_size_seen") =
                   IF Get(StoredExperiment, "required_sample_size_seen") # Undef
                   THEN Get(StoredExperiment, "required_sample_size_seen")
                   ELSE N(ClaimedRequired[StageName(n)])

\* After updateExperiment the experiment holds every value of the update; an
\* update of the stage brings the metric and the sample size of that stage.
UpdateHeldAfterwards(updates) ==
    LET after == Elems(Get(state', "experiments"))[1]
    IN  /\ \A f \in DOMAIN updates[2] : Get(after, f) = updates[2][f]
        /\ "funnel_stage_targeted" \in DOMAIN updates[2] =>
              /\ Get(after, "primary_metric") = S(ClaimedMetric[StageName(after)])
              /\ Get(after, "required_sample_size_seen") =
                     N(ClaimedRequired[StageName(after)])
        /\ \A f \in {"primary_metric", "required_sample_size_seen"} :
              (f \notin DOMAIN updates[2]
               /\ "funnel_stage_targeted" \notin DOMAIN updates[2]) =>
                  Get(after, f) = Get(Experiments[1], f)

\* C19: primary metric and required sample size are those of the targeted
\* stage (PERMISSION: PRR and 60, OFFER: ABR and 30, CONNECTION: CR and 0,
\* BOOKING: BOOKED_KPI and 0) where the record carries none, carried values
\* are kept, and a value set through updateExperiment is held afterwards.
C19_StageDefaults ==
    /\ [](MountedWithStageDefaults)
    /\ [][\A updates \in StagedUpdates :
             (pc = "ready" /\ UpdateExperimentCall(S("e1"), updates))
             => UpdateHeldAfterwards(updates)]_vars

\* An OFFER experiment stored without metric and sample size holds ABR and
\* 30 after the mount.
C19_Witness ==
    /\ JustMounted
    /\ Get(StoredExperiment, "funnel_stage_targeted") = S("OFFER")
    /\ Get(StoredExperiment, "primary_metric") = Undef
    /\ Get(StoredExperiment, "required_sample_size_seen") = Undef
    /\ Get(Experiments[1], "primary_metric") = S("ABR")
    /\ Get(Experiments[1], "required_sample_size_seen") = N(30)

\* A PERMISSION experiment stored with the sample size 0 holds 7 after the
\* user typed 7.5 into the required-seen field.
C19_TypedValueHeld ==
    /\ pc = "ready" /\ dirty
    /\ Get(StoredExperiment, "required_sample_size_seen") = N(0)
    /\ Get(Experiments[1], "funnel_stage_targeted") = S("PERMISSION")
    /\ Get(Experiments[1], "required_sample_size_seen") = N(7)

(***************************************************************************)
(* Claims about the stage of a lead                                        *)
(***************************************************************************)
LeadsDone == pc = "migratedLeads.done"

CanonicalStages ==
    {S(c) : c \in {"REQUESTED", "CONNECTED", "PERMISSION_SENT",
                   "PERMISSION_POSITIVE", "OFFER_POSITIVE", "BOOKED",
                   "ATTENDED", "CLOSED", "LOST"}}

\* The mapping of C20.
ClaimedStage(stage) ==
    IF stage \in CanonicalStages THEN stage
    ELSE IF stage \in {S("A"), S("S")} THEN S("PERMISSION_SENT")
    ELSE IF stage \in {S("B"), S("PERMISSION_POS")} THEN S("PERMISSION_POSITIVE")
    ELSE IF stage \in {S("C"), S("OFFER_POS")} THEN S("OFFER_POSITIVE")
    ELSE IF stage = S("D") THEN S("BOOKED")
    ELSE IF stage = S("X") THEN S("LOST")
    ELSE S("REQUESTED")

\* C20: normalizeLeadStage answers with a canonical stage for every input:
\* a canonical stage itself, the counterpart of a legacy code or short enum,
\* and REQUESTED for everything else, an empty or missing stage included.
C20_LeadStageCanonical ==
    LeadsDone =>
        \A i \in 1..Len(Elems(input.leads)) :
            LET given == Get(Elems(input.leads)[i], "stage")
                got == Get(Elems(output[2])[i], "stage")
            IN  /\ got \in CanonicalStages
                /\ got = ClaimedStage(given)

\* A lead with the legacy code S and a lead without stage were migrated to
\* PERMISSION_SENT and REQUESTED.
C20_Witness ==
    /\ LeadsDone
    /\ Len(Elems(input.leads)) = 2
    /\ Get(Elems(input.leads)[1], "stage") = S("S")
    /\ Get(Elems(input.leads)[2], "stage") = Undef
    /\ Get(Elems(output[2])[1], "stage") = S("PERMISSION_SENT")
    /\ Get(Elems(output[2])[2], "stage") = S("REQUESTED")

(***************************************************************************)
(* Claims about loadState                                                  *)
(***************************************************************************)
LoadDone == pc = "loadState.done"

HasField(item, f) == Tag(item) = "obj" /\ f \in DOMAIN item[2]

\* The item is a payload {schemaVersion, data}.
IsPayload(item) == HasField(item, "schemaVersion") /\ HasField(item, "data")

\* The item is a state without version in one of the field shapes
\* migrateLegacyState reads.
IsLegacyShape(item) ==
    /\ ~HasField(item, "schemaVersion")
    /\ \E f \in {"logs", "dailyLogs", "daily", "prospects", "leads",
                 "experiments"} : HasField(item, f)

\* The first legacy key, in the order v4, v3, v2, that holds parsed state.
RECURSIVE FirstLegacyState(_, _)
FirstLegacyState(items, i) ==
    IF i > Len(items) THEN Absent
    ELSE IF Tag(items[i]) = "obj" THEN items[i]
    ELSE FirstLegacyState(items, i + 1)

\* What C21 says loadState returns for a store.
ClaimedLoad(store) ==
    LET c == store.current
        k == FirstLegacyState(store.legacy, 1)
    IN  IF IsPayload(c) /\ Get(c, "schemaVersion") = N(SCHEMA_VERSION)
        THEN [state |-> normalizeState(Get(c, "data"), FirstRun),
              source |-> S("storage")]
        ELSE IF IsPayload(c)
        THEN [state |-> migrateLegacyState(Get(c, "data"), FirstRun),
              source |-> S("legacy")]
        ELSE IF IsLegacyShape(c)
        THEN [state |-> migrateLegacyState(c, FirstRun), source |-> S("legacy")]
        ELSE IF k # Absent
        THEN [state |-> migrateLegacyState(k, FirstRun), source |-> S("legacy")]
        ELSE [state |-> normalizeState(DEFAULT_STATE, FirstRun),
              source |-> S("default")]

LoadAsClaimed(store) ==
    \E claimed \in {ClaimedLoad(store)} :
        /\ Get(output[2], "state") = claimed.state
        /\ Get(output[2], "source") = claimed.source

\* C21: loadState returns the normalized data of a payload of the current
\* schema version, the migration of an older payload or of a state in a
\* legacy field shape found under the current key or else under the first
\* of the legacy keys v4, v3, v2 that holds one, and the defaults only when
\* no key holds parseable state.
C21_LoadMigratesStoredState ==
    LoadDone => LoadAsClaimed(input.store)

\* The current key holds a state that names its logs dailyLogs, no legacy
\* key holds anything, and loadState returned the defaults without the log.
C21_DailyLogsShapeDropped ==
    /\ LoadDone
    /\ HasField(input.store.current, "dailyLogs")
    /\ input.store.legacy = NoLegacy
    /\ Get(output[2], "source") = S("default")
    /\ Get(Get(output[2], "state"), "logs") = Arr(<<>>)

\* The same state under the legacy key v3, v4 holding a text that is not
\* JSON, is migrated.
C21_LegacyKeyMigrated ==
    /\ LoadDone
    /\ input.store.current = Absent
    /\ input.store.legacy[1] = Null
    /\ HasField(input.store.legacy[2], "dailyLogs")
    /\ Get(output[2], "source") = S("legacy")
    /\ Get(Elems(Get(Get(output[2], "state"), "logs"))[1], "id") = S("k3")

\* The claim holds for every store whose current item is not a state
\* without version that lacks logs, experiments and prospects.
LoadMigratesDetectedState ==
    (LoadDone /\ ~HasField(input.store.current, "dailyLogs"))
        => LoadAsClaimed(input.store)

(***************************************************************************)
(* Claims about the CSV export                                             *)
(***************************************************************************)
CsvDone == pc = "csvEscape.done"

NotAField == <<"not a field">>

\* The content of an escaped field: 2DQUOTE stands for a double quote, a
\* single DQUOTE is not allowed.
RECURSIVE Unescaped(_)
Unescaped(chars) ==
    IF chars = <<>> THEN <<>>
    ELSE IF Head(chars) # DQUOTE
    THEN LET rest == Unescaped(Tail(chars))
         IN  IF rest = NotAField THEN NotAField ELSE <<Head(chars)>> \o rest
    ELSE IF Len(chars) >= 2 /\ chars[2] = DQUOTE
    THEN LET rest == Unescaped(Tail(Tail(chars)))
         IN  IF rest = NotAField THEN NotAField ELSE <<DQUOTE>> \o rest
    ELSE NotAField

\* RFC 4180, field = (escaped / non-escaped): an escaped field is DQUOTE,
\* content, DQUOTE; a non-escaped field is TEXTDATA, which has no comma, no
\* double quote, no CR and no LF.
ParseField(text) ==
    IF text # <<>> /\ Head(text) = DQUOTE
    THEN IF Len(text) >= 2 /\ text[Len(text)] = DQUOTE
         THEN Unescaped(SubSeq(text, 2, Len(text) - 1))
         ELSE NotAField
    ELSE IF \E c \in {",", DQUOTE, "\n", "\r"} : Includes(text, c)
    THEN NotAField
    ELSE text

\* The first half of C22: quoted if and only if the field has a comma, a
\* double quote or a newline, with every double quote doubled.
QuotedAsClaimed ==
    CsvDone =>
        LET s == input.value[2]
        IN  IF Includes(s, ",") \/ Includes(s, DQUOTE) \/ Includes(s, "\n")
            THEN output[2] = Str(<<DQUOTE>> \o DoubleQuotes(s) \o <<DQUOTE>>)
            ELSE output[2] = input.value

\* C22: csvEscape quotes a field exactly when it has a comma, a double quote
\* or a newline, doubling the double quotes, and for every string s reading
\* csvEscape(s) as one RFC 4180 field gives s again.
C22_CsvRoundTrip ==
    /\ QuotedAsClaimed
    /\ CsvDone => ParseField(output[2][2]) = input.value[2]

\* A field with a carriage return and no comma, quote or line feed is
\* written without quotes.
C22_CarriageReturnUnquoted ==
    /\ CsvDone
    /\ input.value = Str(<<"a", "\r", "a">>)
    /\ output[2] = input.value
    /\ ParseField(output[2][2]) = NotAField

\* The example of the claim: hello, "world" is written "hello, ""world"""
\* and reads back as it was.
C22_ExampleRoundTrip ==
    /\ CsvDone
    /\ input.value = CsvExample
    /\ output[2] = Str(<<DQUOTE, "hello", ",", " ", DQUOTE, DQUOTE, "world",
                         DQUOTE, DQUOTE, DQUOTE>>)
    /\ ParseField(output[2][2]) = input.value[2]

\* The round trip holds for every string without a carriage return.
CsvRoundTripWithoutCR ==
    (CsvDone /\ ~Includes(input.value[2], "\r"))
        => ParseField(output[2][2]) = input.value[2]

(***************************************************************************)
(* Claims about the account references of logs and prospects               *)
(***************************************************************************)
AccountIds == {Get(Accounts[i], "id") : i \in 1..Len(Accounts)}

\* C23: in every state of the mounted component the account_id of every
\* log and of every prospect is the id of an account of config.accounts
\* (the claim adds that it is still the account the record was saved for).
C23_AccountIdsResolve ==
    pc = "ready" =>
        \A f \in {"logs", "prospects"} :
            \A i \in 1..Len(Elems(Get(state, f))) :
                Get(Elems(Get(state, f))[i], "account_id") \in AccountIds

\* Started on empty storage and never saved: the first account was renamed
\* to "a" while the log draft still named "account_1", and the draft was
\* saved as a log of an account that no longer exists.
C23_StaleDraftSaved ==
    /\ pc = "ready"
    /\ storage.current = Absent /\ storage.legacy = NoLegacy
    /\ ~input.supabase
    /\ Get(Accounts[1], "id") = S("a")
    /\ Len(Elems(Get(state, "logs"))) = 1
    /\ Get(Elems(Get(state, "logs"))[1], "account_id") = AccountIdFor(0)
    /\ AccountIdFor(0) \notin AccountIds

(***************************************************************************)
(* Claims about handleSaveLog                                              *)
(***************************************************************************)
Logs == Elems(Get(state, "logs"))

\* The entry handleSaveLog builds from the draft in the current state.
SavedEntry ==
    normalizeLog(Put(logDraft, "id",
                     Or(editingLogId, makeId(Run(idCounter + 1), <<>>))),
                 DefaultAccountIdOf(state), Run(idCounter + 1), <<"_log">>)

\* What C24 says of the logs after a handleSaveLog step.
SavedAsClaimed ==
    LET after == Elems(Get(state', "logs"))
    IN  /\ \E i \in 1..Len(after) : after[i] = SavedEntry
        /\ ~Truthy(editingLogId) =>
               \A i \in 1..Len(Logs) : Get(Logs[i], "id") # Get(SavedEntry, "id")
        /\ \A i \in 1..Len(Logs) :
               Get(Logs[i], "id") # Get(SavedEntry, "id") =>
                   \E j \in 1..Len(after) : after[j] = Logs[i]
        /\ \A i, j \in 1..Len(after) :
               i # j => Get(after[i], "id") # Get(after[j], "id")
        /\ \A i, j \in 1..Len(after) :
               i < j => ~DateAfter(after[j], after[i])

\* C24: after every handleSaveLog the logs contain the normalized draft,
\* under a fresh id or under the edited id; the other logs are as before,
\* the ids are pairwise distinct and the dates do not increase.
C24_SavedLogPresent ==
    [][(pc = "ready" /\ handleSaveLog) => SavedAsClaimed]_vars

\* A log was taken into the draft by handleEditLog and then deleted: the
\* draft is still bound to its id, and handleSaveLog will map it onto no log.
C24_EditingDeletedLog ==
    /\ pc = "ready"
    /\ Truthy(editingLogId)
    /\ Get(logDraft, "id") = editingLogId
    /\ \A i \in 1..Len(Logs) : Get(Logs[i], "id") # editingLogId

\* The claim holds for every handleSaveLog step whose edited log is still
\* among the logs, and for every step that adds a log.
SavedLogPresentUnlessDeleted ==
    [][(/\ pc = "ready"
        /\ Truthy(editingLogId) =>
              \E i \in 1..Len(Logs) : Get(Logs[i], "id") = editingLogId
        /\ handleSaveLog) => SavedAsClaimed]_vars

(***************************************************************************)
(* Claims about the initial Supabase load                                  *)
(***************************************************************************)
\* Nothing was found in local storage at the mount (storage is not written
\* in the behaviours of this section).
FoundNoLocalData == storage.current = Absent /\ storage.legacy = NoLegacy

\* The load is started exactly when there is a client and loadState answered
\* with source "default".
StartedOnlyOnDefault ==
    pc = "ready" => (remote # "none" <=> (input.supabase /\ FoundNoLocalData))

\* The load that answers res and does not fail replaces the state by the
\* normalized remote data, whatever the state held, and clears dirty.
ReplacedBy(res) ==
    \E nextState \in {RemoteStateOf(res, Run(idCounter + 1))} :
        nextState # Throw =>
            /\ state' = nextState
            /\ dirty' = FALSE
            /\ savedAt' = Null

C25_NotStartedOnStoredData ==
    /\ pc = "ready" /\ input.supabase /\ ~FoundNoLocalData
    /\ remote = "none" /\ dirty

(***************************************************************************)
(* Claims about autosave                                                   *)
(***************************************************************************)
\* The item under the current key holds `st` with the current version.
Persisted(st) ==
    /\ storage.current # Absent
    /\ Get(storage.current, "schemaVersion") = N(SCHEMA_VERSION)
    /\ Get(storage.current, "data") = st

\* A dirty state with autosave on has exactly one write pending, the one
\* for the state as it is now; otherwise no write is pending.
OnePendingForLatest ==
    pc = "ready" =>
        autosaveTimer.pending = IF AutosaveOn(state) /\ dirty
                                THEN <<state>> ELSE <<>>

\* The pending write stores the state as it is and clears dirty.
FirePersistsLatest ==
    AutosaveFire => /\ storage'.current =
                          SavedPayload(state, Run(idCounter + 1))
                    /\ ~dirty'
                    /\ autosaveTimer'.pending = <<>>

\* With autosave off only handleSave writes.
OffWritesOnlyOnSave ==
    pc = "ready" /\ ~AutosaveOn(state) /\ storage' # storage => handleSave

\* C26: with config.autosave on a dirty state is eventually written to
\* local storage with the current schemaVersion and dirty becomes false
\* (unless autosave is switched off first); at most one autosave write is
\* pending, it is the one for the latest state, and it persists that
\* state; with autosave off storage changes only by handleSave.
C26_AutosaveWritesLatest ==
    /\ []OnePendingForLatest
    /\ [][FirePersistsLatest /\ OffWritesOnlyOnSave]_vars
    /\ (pc = "ready" /\ dirty /\ AutosaveOn(state))
          ~> (pc = "ready"
              /\ (~AutosaveOn(state) \/ (~dirty /\ Persisted(state))))

\* An autosaved state: the switch is on, a log was deleted since the load,
\* and the stored item holds the state without that log.
C26_Witness ==
    /\ pc = "ready" /\ AutosaveOn(state) /\ ~dirty
    /\ autosaveTimer.cleanup = FALSE
    /\ Elems(Get(state, "logs")) = <<>>
    /\ Persisted(state)
    /\ savedAt = NowISO(Run(idCounter + 1))

(***************************************************************************)
(* Claims about the startup load of DMLabProvider                          *)
(***************************************************************************)
\* A step that changes the stored item ends with loading false.
WrittenOnlyWhenLoaded == storage' # storage => ~loading'

\* loading never goes back to true.
LoadingStaysFalse == ~loading => ~loading'

\* The step that ends the load stores the state it leaves.
LoadEndStoresState ==
    loading /\ ~loading' => storage'.item = Stringify(state')

\* loading is true exactly until load() has returned.
LoadingUntilLoaded == loading <=> pc # "context"

\* C27: local storage is not written while the load sequence is in
\* progress (the first write comes with loading false and stores the
\* state the load left), loading becomes false on every path of the
\* sequence, only when load() returns, and never becomes true again.
C27_NoWriteWhileLoading ==
    /\ []LoadingUntilLoaded
    /\ [][WrittenOnlyWhenLoaded /\ LoadingStaysFalse /\ LoadEndStoresState]_vars
    /\ <>(~loading)

\* The early return after a successful Supabase load: loading is false,
\* the state holds the cloud data and the stored item is that state.
C27_Witness ==
    /\ pc = "context" /\ ~loading /\ input.supabase
    /\ \E i \in 1..Len(Elems(Get(state, "dailyLogs"))) :
          Get(Elems(Get(state, "dailyLogs"))[i], "id") = S("cloud")
    /\ storage.item = Stringify(state)

(***************************************************************************)
(* Claims about the account references after migrateData                   *)
(***************************************************************************)
MigrateDone == pc = "migrateData.done"

MigratedAccountIds ==
    LET accounts == Elems(Get(Get(output[2], "settings"), "accounts"))
    IN  {Get(accounts[i], "id") : i \in 1..Len(accounts)}

\* The accountId of every record of the list is the id of an account.
RecordsResolve(field) ==
    LET records == Elems(Get(output[2], field))
    IN  \A i \in 1..Len(records) :
            Get(records[i], "accountId") \in MigratedAccountIds

\* C28: after migrateData the accountId of every daily log and of every
\* lead is the id of an account of settings.accounts.
C28_MigratedAccountIdsResolve ==
    MigrateDone => RecordsResolve("dailyLogs") /\ RecordsResolve("leads")

\* Accounts given as names and a log without account: the migrated log
\* names "Account 1", the accounts are account_1 and account_2.
C28_DefaultIsAccountName ==
    /\ MigrateDone
    /\ Get(Get(input.oldData, "settings"), "accounts")
           = Arr(<<AccountNameFor(0), AccountNameFor(1)>>)
    /\ MigratedAccountIds = {AccountIdFor(0), AccountIdFor(1)}
    /\ Len(Elems(Get(output[2], "dailyLogs"))) = 1
    /\ Get(Elems(Get(input.oldData, "dailyLogs"))[1], "accountId") = Undef
    /\ Get(Elems(Get(output[2], "dailyLogs"))[1], "accountId")
           = AccountNameFor(0)

\* Records that carry an account keep it, and the accounts are as claimed:
\* names become {id: "account_n", name}, objects keep their id or get
\* "account_n".
CarriedAccountKept ==
    MigrateDone =>
        /\ \A f \in {"dailyLogs", "leads"} :
              \A i \in 1..Len(Elems(Get(input.oldData, f))) :
                  LET given == Get(Elems(Get(input.oldData, f))[i], "accountId")
                  IN  given # Undef =>
                          /\ Get(Elems(Get(output[2], f))[i], "accountId") = given
                          /\ given \in MigratedAccountIds
        /\ MigratedAccountIds = {AccountIdFor(0), AccountIdFor(1)}

(***************************************************************************)
(* Claims about DELETE_EXPERIMENT                                          *)
(***************************************************************************)
\* The log `after` is the log `before` with experimentId '' and variantId
\* undefined and every other field as it was.
Unlinked(before, after) ==
    /\ Get(after, "experimentId") = EmptyStr
    /\ Get(after, "variantId") = Undef
    /\ DOMAIN after[2] \ {"experimentId", "variantId"}
           = DOMAIN before[2] \ {"experimentId", "variantId"}
    /\ \A f \in DOMAIN before[2] \ {"experimentId", "variantId"} :
           Get(after, f) = Get(before, f)

DeletedAsClaimed(id) ==
    LET exps == Elems(Get(state, "experiments"))
        logs == Elems(Get(state, "dailyLogs"))
        logsAfter == Elems(Get(state', "dailyLogs"))
    IN  /\ Elems(Get(state', "experiments"))
               = SelectSeq(exps, LAMBDA e : Get(e, "id") # id)
        /\ Len(logsAfter) = Len(logs)
        /\ \A i \in 1..Len(logs) :
               IF Get(logs[i], "experimentId") = id
               THEN Unlinked(logs[i], logsAfter[i])
               ELSE logsAfter[i] = logs[i]
        /\ \A i \in 1..Len(logsAfter) :
               Get(logsAfter[i], "experimentId") # id
        /\ \A f \in DOMAIN state[2] \ {"experiments", "dailyLogs"} :
               Get(state', f) = Get(state, f)

\* C29: DELETE_EXPERIMENT removes exactly the experiments of the id and no
\* log; the logs of the experiment get experimentId '' and variantId
\* undefined and keep their other fields, the other logs are unchanged,
\* and no log references the id afterwards.
C29_DeleteExperimentUnlinksLogs ==
    [][\A id \in CtxExperimentIds :
          DeleteExperimentCall(id) => DeletedAsClaimed(id)]_vars

\* An experiment was deleted: a log that carries a variant carries no
\* experiment, its counts are as entered, and the experiment is gone.
C29_Witness ==
    /\ pc = "context" /\ output = Returned(Undef)
    /\ Len(Elems(Get(state, "experiments"))) = 1
    /\ Len(Elems(Get(state, "dailyLogs"))) = 2
    /\ LET log == Elems(Get(state, "dailyLogs"))[1]
       IN  /\ Get(log, "experimentId") = EmptyStr
           /\ "variantId" \in DOMAIN log[2]
           /\ Get(log, "variantId") = Undef
           /\ Get(log, "bookedCalls") = N(1)
    /\ Get(Elems(Get(state, "dailyLogs"))[2], "experimentId") = S("e1")

(***************************************************************************)
(* Claims about the bottleneck and the status of the booked KPI            *)
(***************************************************************************)
NoBottleneck == output[2].bottleneck = "None (scale volume)"

BookedIsGood == output[2].status.BOOKED_KPI = "good"

\* C30: the bottleneck of a computeKpis result is "None (scale volume)" if
\* and only if the status of BOOKED_KPI is good, and a bottleneck that
\* names a stage comes with a status of BOOKED_KPI that is not good.
C30_BottleneckMatchesBookedStatus ==
    KpisDone => /\ NoBottleneck <=> BookedIsGood
                /\ ~NoBottleneck => ~BookedIsGood

\* A BOOKED_KPI target of 0 with calls booked: no bottleneck is named and
\* the status of BOOKED_KPI is neutral.
C30_ZeroTargetNoBottleneckNeutral ==
    /\ KpisDone
    /\ Get(input.targets, "BOOKED_KPI") = N(0)
    /\ output[2].primary.BOOKED_KPI # Null
    /\ NoBottleneck
    /\ output[2].status.BOOKED_KPI = "neutral"

\* With a BOOKED_KPI target above 0 and messages sent the two agree; a
\* bottleneck that names a stage never comes with a good status; and
\* without a positive target or without messages sent the status is
\* neutral whatever the bottleneck.
BottleneckMatchesStatusWithTarget ==
    KpisDone =>
        /\ ~NoBottleneck => ~BookedIsGood
        /\ BookedIsGood => NoBottleneck
        /\ IF TwiceTarget(input.targets, "BOOKED_KPI") > 0
              /\ output[2].primary.BOOKED_KPI # Null
           THEN NoBottleneck <=> BookedIsGood
           ELSE output[2].status.BOOKED_KPI = "neutral"
====
